---------------------------- MODULE Spec2Model ----------------------------
(***************************************************************************)
(* Model of the NotulaKika backend (backend/main.py, backend/api/index.py,  *)
(* backend/utils/*.py): the four request pipelines /upload, /transcribe,    *)
(* /summarize and /transcribe-url, the transcription and summarization      *)
(* collaborators they call, and the temporary file of the staged upload.    *)
(*                                                                         *)
(* One behaviour is the handling of one request: a request is received in  *)
(* the idle state, the handler runs step by step (pc is its position) and   *)
(* ends in pc = "done" with the outcome the client sees.  Text is a         *)
(* sequence of one-character strings.                                      *)
(***************************************************************************)
EXTENDS Naturals, Sequences, FiniteSets

None == "None"
\* None where the value is otherwise a text
NoText == << "None" >>

(***************************************************************************)
(* Bounds of the model.                                                    *)
(***************************************************************************)
\* longest transcript body (without padding) sent to /summarize
MaxCoreLen == 11
\* most whitespace characters put before, and after, a transcript body
MaxPad == 2

(***************************************************************************)
(* Program constants.                                                      *)
(***************************************************************************)
\* main.py:393  100 * 1024 * 1024
MAX_FILE_SIZE == 104857600
\* main.py:228  len(transcript) < 10
MIN_TRANSCRIPT_LEN == 10

\* gemini_api.py:36-43, in the order tried
candidate_models ==
    << "gemini-2.5-flash", "gemini-1.5-flash-latest", "gemini-1.5-flash",
       "gemini-1.5-flash-8b", "gemini-1.5-pro-latest", "gemini-1.5-pro" >>

(***************************************************************************)
(* Text helpers.                                                           *)
(***************************************************************************)
\* str.lower() on the characters that occur in the file names and the
\* summary texts of the model
LowerChar(c) ==
    CASE c = "A" -> "a" [] c = "C" -> "c" [] c = "D" -> "d" [] c = "F" -> "f"
      [] c = "G" -> "g" [] c = "I" -> "i" [] c = "L" -> "l" [] c = "M" -> "m"
      [] c = "O" -> "o" [] c = "P" -> "p" [] c = "V" -> "v" [] c = "W" -> "w"
      [] c = "E" -> "e" [] c = "K" -> "k" [] c = "N" -> "n" [] c = "R" -> "r"
      [] c = "S" -> "s" [] c = "T" -> "t" [] c = "U" -> "u" [] c = "Y" -> "y"
      [] OTHER -> c

Lower(s) == [i \in 1..Len(s) |-> LowerChar(s[i])]

\* str.rfind(ch): the last index of ch in s, 0 when there is none
RFind(s, ch) ==
    LET hits == {i \in 1..Len(s) : s[i] = ch}
    IN  IF hits = {} THEN 0 ELSE CHOOSE i \in hits : \A j \in hits : j <= i

\* os.path.splitext(p)[1]: the text from the last dot on, when that dot
\* follows the last "/" and some character between them is not a dot
SplitExt(p) ==
    LET sepIndex == RFind(p, "/")
        dotIndex == RFind(p, ".")
    IN  IF /\ dotIndex > sepIndex
           /\ \E k \in (sepIndex + 1)..(dotIndex - 1) : p[k] # "."
        THEN SubSeq(p, dotIndex, Len(p))
        ELSE << >>

\* the whitespace characters of the texts of the model
Whitespace == {" ", "\n"}

\* str.strip(): leading and trailing whitespace removed, inner whitespace kept
RECURSIVE LStrip(_)
LStrip(s) == IF s # << >> /\ Head(s) \in Whitespace THEN LStrip(Tail(s)) ELSE s

RECURSIVE RStrip(_)
RStrip(s) ==
    IF s # << >> /\ s[Len(s)] \in Whitespace
    THEN RStrip(SubSeq(s, 1, Len(s) - 1)) ELSE s

Strip(s) == RStrip(LStrip(s))

RECURSIVE Rep(_, _)
Rep(c, n) == IF n = 0 THEN << >> ELSE << c >> \o Rep(c, n - 1)

\* s.startswith(prefix)
StartsWith(s, prefix) ==
    Len(prefix) <= Len(s) /\ SubSeq(s, 1, Len(prefix)) = prefix

\* sub in s
Contains(s, sub) ==
    \E i \in 0..(Len(s) - Len(sub)) : SubSeq(s, i + 1, i + Len(sub)) = sub

\* the index of the first ch in s, 0 when there is none
Find(s, ch) ==
    LET hits == {i \in 1..Len(s) : s[i] = ch}
    IN  IF hits = {} THEN 0 ELSE CHOOSE i \in hits : \A j \in hits : i <= j

\* s.split(ch): the pieces of s between the occurrences of ch
RECURSIVE Split(_, _)
Split(s, ch) ==
    LET i == Find(s, ch)
    IN  IF i = 0 THEN << s >>
        ELSE << SubSeq(s, 1, i - 1) >> \o Split(SubSeq(s, i + 1, Len(s)), ch)

\* s.replace(ch, '')
Remove(s, ch) == SelectSeq(s, LAMBDA c : c # ch)

(***************************************************************************)
(* Validation of an uploaded file (main.py:141-159, 388-407).               *)
(***************************************************************************)
allowed_extensions ==
    { << ".", "m", "p", "3" >>, << ".", "w", "a", "v" >>, << ".", "m", "p", "4" >>,
      << ".", "a", "v", "i" >>, << ".", "m", "o", "v" >>, << ".", "m", "4", "a" >>,
      << ".", "f", "l", "a", "c" >>, << ".", "o", "g", "g" >> }

\* file_extension = os.path.splitext(file.filename.lower())[1]
FileExtension(name) == SplitExt(Lower(name))

\* the size check with >= in place of >
SizeTooLarge_ge(size) == size >= MAX_FILE_SIZE
\* if file_size > 100 * 1024 * 1024
SizeTooLarge(size) == size > MAX_FILE_SIZE

\* the extension check without .lower()
ExtensionAllowed_nolower(name) == SplitExt(name) \in allowed_extensions
\* if file_extension not in allowed_extensions
ExtensionAllowed(name) == FileExtension(name) \in allowed_extensions

(***************************************************************************)
(* The transcription collaborator (gladia_api.py).                         *)
(***************************************************************************)
GenericMime == "application/octet-stream"

\* ext -> MIME table with "application/octet-stream" as the default
_guess_mime_type(name) ==
    LET ext == SplitExt(Lower(name))
    IN  CASE ext = << ".", "m", "p", "3" >> -> "audio/mpeg"
          [] ext = << ".", "w", "a", "v" >> -> "audio/wav"
          [] ext = << ".", "f", "l", "a", "c" >> -> "audio/flac"
          [] ext = << ".", "o", "g", "g" >> -> "audio/ogg"
          [] ext = << ".", "m", "4", "a" >> -> "audio/mp4"
          [] ext = << ".", "m", "p", "4" >> -> "video/mp4"
          [] ext = << ".", "m", "o", "v" >> -> "video/quicktime"
          [] ext = << ".", "a", "v", "i" >> -> "video/x-msvideo"
          [] OTHER -> GenericMime

\* the test that only None fails
Truthy_notNone(t) == t # NoText
\* Python's truth value of an Optional[str]
Truthy(t) == t # NoText /\ t # << >>

(***************************************************************************)
(* JSON values as response.json() gives them.  A value is a record of its   *)
(* Python type name, its text (a str), its items (a list) and its fields    *)
(* (a dict: the entries in insertion order, each key once).                 *)
(***************************************************************************)
Str(t) == [type |-> "str", text |-> t, items |-> << >>, fields |-> << >>]

Null == [type |-> "NoneType", text |-> << >>, items |-> << >>, fields |-> << >>]

Num == [type |-> "int", text |-> << >>, items |-> << >>, fields |-> << >>]

List(items) == [type |-> "list", text |-> << >>, items |-> items, fields |-> << >>]

Dict(fields) == [type |-> "dict", text |-> << >>, items |-> << >>, fields |-> fields]

\* one entry of a dict
Entry(k, v) == [key |-> k, value |-> v]

\* k in d
Has(d, k) == \E i \in 1..Len(d.fields) : d.fields[i].key = k

\* d.get(k): None when d has no key k
Get(d, k) ==
    IF Has(d, k)
    THEN d.fields[CHOOSE i \in 1..Len(d.fields) : d.fields[i].key = k].value
    ELSE Null

\* isinstance(v, str)
IsStr(v) == v.type = "str"

\* list(d.keys())
Keys(d) == [i \in 1..Len(d.fields) |-> d.fields[i].key]

\* str(type(v)), by the type's name
TypeName(v) == v.type

\* "\n".join(texts)
RECURSIVE JoinLines(_)
JoinLines(texts) ==
    IF texts = << >> THEN << >>
    ELSE IF Len(texts) = 1 THEN texts[1]
    ELSE texts[1] \o << "\n" >> \o JoinLines(Tail(texts))

\* for k in keys: val = d.get(k); if isinstance(val, str): the first such val,
\* None when no key of keys holds a str
RECURSIVE FirstStr(_, _)
FirstStr(d, keys) ==
    IF keys = << >> THEN NoText
    ELSE IF IsStr(Get(d, Head(keys))) THEN Get(d, Head(keys)).text
    ELSE FirstStr(d, Tail(keys))

(***************************************************************************)
(* _extract_transcript (gladia_api.py:102-143).                            *)
(***************************************************************************)
\* the keys tried on a dict item of a prediction list (gladia_api.py:115)
ItemKeys == << "transcription", "transcript", "text", "sentence", "segment" >>

\* the keys tried on a prediction that is a dict (gladia_api.py:126)
PredictionKeys == << "transcript", "text", "sentence", "segment" >>

\* the root keys with `transcription` tried first
RootKeys_transcriptionFirst == << "transcription", "text", "full_text" >>
\* the keys tried at the root of the payload (gladia_api.py:131)
RootKeys == << "text", "transcription", "full_text" >>

\* the keys tried in a `result` or `data` sub-object (gladia_api.py:139)
NestedKeys == << "text", "transcription", "full_text", "prediction" >>

ContainerKeys == << "result", "data" >>

\* texts without the items that are dicts
ItemTexts_strOnly(items) ==
    LET strs == SelectSeq(items, LAMBDA v : v.type = "str")
    IN  [i \in 1..Len(strs) |-> strs[i].text]
\* texts: one str per item that is a str or a dict with a str under ItemKeys
RECURSIVE ItemTexts(_)
ItemTexts(items) ==
    IF items = << >> THEN << >>
    ELSE LET item == Head(items)
             rest == ItemTexts(Tail(items))
         IN  IF item.type = "dict"
             THEN IF FirstStr(item, ItemKeys) # NoText
                  THEN << FirstStr(item, ItemKeys) >> \o rest
                  ELSE rest
             ELSE IF IsStr(item) THEN << item.text >> \o rest
             ELSE rest

\* the prediction rule with `if pred` added to the str test
FromPrediction_nonEmptyStr(result) ==
    IF ~Has(result, "prediction") THEN NoText
    ELSE LET pred == Get(result, "prediction")
         IN  IF IsStr(pred) /\ pred.text # << >> THEN pred.text
             ELSE IF pred.type = "list" /\ ItemTexts(pred.items) # << >>
                  THEN JoinLines(ItemTexts(pred.items))
             ELSE IF pred.type = "dict" THEN FirstStr(pred, PredictionKeys)
             ELSE NoText
\* if "prediction" in result: a str is returned as it is, a list gives the
\* joined texts of its items when there are any, a dict its first str under
\* PredictionKeys; None when the rule returns nothing (gladia_api.py:105-128)
FromPrediction(result) ==
    IF ~Has(result, "prediction") THEN NoText
    ELSE LET pred == Get(result, "prediction")
         IN  IF IsStr(pred) THEN pred.text
             ELSE IF pred.type = "list" /\ ItemTexts(pred.items) # << >>
                  THEN JoinLines(ItemTexts(pred.items))
             ELSE IF pred.type = "dict" THEN FirstStr(pred, PredictionKeys)
             ELSE NoText

\* for container_key in ("result", "data"): the first str under NestedKeys of
\* the first container that is a dict and has one (gladia_api.py:136-142)
RECURSIVE FromNested(_, _)
FromNested(result, containers) ==
    IF containers = << >> THEN NoText
    ELSE LET container == Get(result, Head(containers))
         IN  IF container.type = "dict" /\ FirstStr(container, NestedKeys) # NoText
             THEN FirstStr(container, NestedKeys)
             ELSE FromNested(result, Tail(containers))

\* what _extract_transcript gives in place of a return value when it raises
AttributeError == << "AttributeError" >>

\* A result that is no dict passes the isinstance tests of lines 105 and 132
\* and raises AttributeError at result.get of line 137.
_extract_transcript(result) ==
    IF result.type # "dict" THEN AttributeError
    ELSE IF FromPrediction(result) # NoText THEN FromPrediction(result)
    ELSE IF FirstStr(result, RootKeys) # NoText THEN FirstStr(result, RootKeys)
    ELSE FromNested(result, ContainerKeys)

(***************************************************************************)
(* transcribe_audio_from_upload (gladia_api.py:149-217).                   *)
(***************************************************************************)
\* error is None
NoDiagnostic ==
    [message |-> None, keys |-> << >>, prediction_type |-> None,
     prediction_raw_type |-> None]

\* an error that is a text, or the dict of the non-200 branch
TextDiagnostic(message) ==
    [message |-> message, keys |-> << >>, prediction_type |-> None,
     prediction_raw_type |-> None]

\* the diagnostic's key list without the keys the normalizer does not know
DiagnosticKeys_knownOnly(result) ==
    SelectSeq(Keys(result),
              LAMBDA k : k \in {"prediction", "prediction_raw", "text",
                                "transcription", "full_text", "result", "data"})
\* "keys": list(result.keys())  (gladia_api.py:205)
DiagnosticKeys(result) == Keys(result)

\* {"message": "No transcript field in response", "keys": ...,
\*  "prediction_type": str(type(pred)), "prediction_raw_type": ...}
NoTranscriptDiagnostic(result) ==
    [message |-> "no_transcript_field",
     keys |-> DiagnosticKeys(result),
     prediction_type |-> TypeName(Get(result, "prediction")),
     prediction_raw_type |-> TypeName(Get(result, "prediction_raw"))]

\* `if transcript is not None` in place of `if transcript`
TranscriptFound_notNone(t) == t # NoText
\* if transcript:  (gladia_api.py:189)
TranscriptFound(t) == Truthy(t)

\* What the provider call can end in: an exception of requests.post, a status
\* other than 200, a 200 whose body is not JSON, and a 200 with a JSON payload.
Response(kind, payload) == [kind |-> kind, payload |-> payload]

\* (transcript, error) as transcribe_audio_from_upload returns it
transcribe_audio_from_upload(resp) ==
    CASE resp.kind = "exception" ->
            [transcript |-> NoText, error |-> TextDiagnostic("exception_text")]
      [] resp.kind = "non_200" ->
            [transcript |-> NoText, error |-> TextDiagnostic("status_and_body")]
      [] resp.kind = "non_json_200" ->
            [transcript |-> NoText, error |-> TextDiagnostic("non_json_200")]
      [] OTHER ->
            LET transcript == _extract_transcript(resp.payload)
            IN  IF transcript = AttributeError
                THEN [transcript |-> NoText, error |-> TextDiagnostic("exception_text")]
                ELSE IF TranscriptFound(transcript)
                THEN [transcript |-> transcript, error |-> NoDiagnostic]
                ELSE [transcript |-> NoText,
                      error |-> NoTranscriptDiagnostic(resp.payload)]

(***************************************************************************)
(* The summarization collaborator (gemini_api.py).                         *)
(***************************************************************************)
\* what one client.models.generate_content attempt can end in
AttemptResults == {"exception", "no_text", "text"}

NoErr == [error |-> None, model |-> None]

\* a diagnostic that is a plain text
Diag(text) == [error |-> text, model |-> None]

NoSummary == [returned |-> FALSE, is_error |-> FALSE, details |-> NoErr]

\* return {"_error": True, "status": None, "details": ...}
ErrorSummary(details) == [returned |-> TRUE, is_error |-> TRUE, details |-> details]

\* return parse_gemini_response(text): a dict with agenda, summary, action_items
ParsedSummary == [returned |-> TRUE, is_error |-> FALSE, details |-> NoErr]

\* for model in candidate_models: the candidate tried after those in `tried`
NextCandidate(tried) == candidate_models[Len(tried) + 1]

\* `if text is not None` in place of `if text`
AttemptSucceeded_notNone(r) == r # "exception"
\* if text: (gemini_api.py:107)
AttemptSucceeded(r) == r = "text"

\* last_err set only while it is still None
NewLastErr_keepFirst(prev, r, model) ==
    IF prev # NoErr THEN prev
    ELSE [error |-> IF r = "no_text" THEN "no_text" ELSE "exception_text", model |-> model]
\* last_err = {"error": ..., "model": model} (gemini_api.py:112, 115)
NewLastErr(prev, r, model) ==
    [error |-> IF r = "no_text" THEN "no_text" ELSE "exception_text", model |-> model]

\* `if not summary_data` alone
SummaryFailed_noneOnly(sd) == ~sd.returned
\* if not summary_data or summary_data.get("_error")  (main.py:240, 441)
SummaryFailed(sd) == ~sd.returned \/ sd.is_error

(***************************************************************************)
(* parse_gemini_response (gemini_api.py:126-221).                          *)
(***************************************************************************)
Stars == << "*", "*" >>

Colon == << ":" >>

\* line.lower().startswith('**agenda:**') or line.lower().startswith('agenda:')
\* or 'agenda' in line.lower() and ':' in line
IsAgendaHeader(line) ==
    LET low == Lower(line)
    IN  \/ StartsWith(low, << "*", "*", "a", "g", "e", "n", "d", "a", ":", "*", "*" >>)
        \/ StartsWith(low, << "a", "g", "e", "n", "d", "a", ":" >>)
        \/ /\ Contains(low, << "a", "g", "e", "n", "d", "a" >>)
           /\ Contains(line, Colon)

\* the test of the first elif (gemini_api.py:167-172)
IsSummaryHeader(line) ==
    LET low == Lower(line)
    IN  \/ StartsWith(low, << "*", "*", "r", "i", "n", "g", "k", "a", "s", "a", "n", ":", "*", "*" >>)
        \/ StartsWith(low, << "r", "i", "n", "g", "k", "a", "s", "a", "n", ":" >>)
        \/ StartsWith(low, << "*", "*", "s", "u", "m", "m", "a", "r", "y", ":", "*", "*" >>)
        \/ StartsWith(low, << "s", "u", "m", "m", "a", "r", "y", ":" >>)
        \/ /\ Contains(low, << "r", "i", "n", "g", "k", "a", "s", "a", "n" >>)
           /\ Contains(line, Colon)
        \/ /\ Contains(low, << "s", "u", "m", "m", "a", "r", "y" >>)
           /\ Contains(line, Colon)

\* the test of the second elif (gemini_api.py:183-185)
IsActionHeader(line) ==
    LET low == Lower(line)
    IN  \/ StartsWith(low, << "*", "*", "a", "c", "t", "i", "o", "n", " ", "i", "t", "e", "m", "s",
           ":", "*", "*" >>)
        \/ StartsWith(low, << "a", "c", "t", "i", "o", "n", " ", "i", "t", "e", "m", "s", ":" >>)
        \/ /\ Contains(low, << "a", "c", "t", "i", "o", "n", " ", "i", "t", "e", "m", "s" >>)
           /\ Contains(line, Colon)

\* the tests in the order action items, summary, agenda
HeaderOf_lastFirst(line) ==
    IF IsActionHeader(line) THEN "action_items"
    ELSE IF IsSummaryHeader(line) THEN "summary"
    ELSE IF IsAgendaHeader(line) THEN "agenda"
    ELSE None
\* the section a line opens, by the order of the if / elif tests; None for a
\* line that is no header
HeaderOf(line) ==
    IF IsAgendaHeader(line) THEN "agenda"
    ELSE IF IsSummaryHeader(line) THEN "summary"
    ELSE IF IsActionHeader(line) THEN "action_items"
    ELSE None

\* summary_data = {"agenda": "", "summary": "", "action_items": ""}
EmptySummary == [agenda |-> << >>, summary |-> << >>, action_items |-> << >>]

\* current_section = None; section_content = []
ParserStart ==
    [current_section |-> None, section_content |-> << >>,
     summary_data |-> EmptySummary]

\* the store that appends to the value the field already has
Store_append(sd, section, text) ==
    [sd EXCEPT ![section] = IF @ = << >> THEN text ELSE @ \o << "\n" >> \o text]
\* summary_data[current_section] = ...
Store(sd, section, text) == [sd EXCEPT ![section] = text]

\* if current_section and section_content:
\*     summary_data[current_section] = '\n'.join(section_content).strip()
Flush(st) ==
    IF st.current_section # None /\ st.section_content # << >>
    THEN Store(st.summary_data, st.current_section,
               Strip(JoinLines(st.section_content)))
    ELSE st.summary_data

\* the parser without the flush after the loop
FinalFlush_forgotten(st) == st.summary_data
\* "Don't forget the last section" (gemini_api.py:203-204)
FinalFlush(st) == Flush(st)

\* after_colon = line.split(':', 1)[1].strip()
AfterColon(line) == Strip(SubSeq(line, Find(line, ":") + 1, Len(line)))

\* if ':' in line: if after_colon and after_colon != '**':
\*     section_content.append(after_colon)
HeaderContent(line) ==
    LET after_colon == AfterColon(line)
    IN  IF Contains(line, Colon) /\ after_colon # << >> /\ after_colon # Stars
        THEN << after_colon >>
        ELSE << >>

\* the body of the three header branches
OpenSection(st, section, line) ==
    [current_section |-> section, section_content |-> HeaderContent(line),
     summary_data |-> Flush(st)]

\* elif current_section and line and not line.startswith('**'):
\*     clean_line = line.replace('*', '').strip()
\*     if clean_line: section_content.append(clean_line)
ContentLine(st, line) ==
    IF st.current_section # None /\ line # << >> /\ ~StartsWith(line, Stars)
    THEN LET clean_line == Strip(Remove(line, "*"))
         IN  IF clean_line # << >>
             THEN [st EXCEPT !.section_content = Append(@, clean_line)]
             ELSE st
    ELSE st

\* one iteration of `for line in lines`
ParseLine(st, raw) ==
    LET line == Strip(raw)
        section == HeaderOf(line)
    IN  IF section # None
        THEN OpenSection(st, section, line)
        ELSE ContentLine(st, line)

RECURSIVE ParseLines(_, _)
ParseLines(st, lines) ==
    IF lines = << >> THEN st
    ELSE ParseLines(ParseLine(st, Head(lines)), Tail(lines))

\* "Tidak dapat mengurai agenda dari transkrip"
CouldNotParseAgenda ==
    << "T", "i", "d", "a", "k", " ", "d", "a", "p", "a", "t", " ", "m", "e",
       "n", "g", "u", "r", "a", "i", " ", "a", "g", "e", "n", "d", "a",
       " ", "d", "a", "r", "i", " ", "t", "r", "a", "n", "s", "k", "r",
       "i", "p" >>

\* "Tidak dapat mengurai action items dari transkrip"
CouldNotParseActionItems ==
    << "T", "i", "d", "a", "k", " ", "d", "a", "p", "a", "t", " ", "m", "e",
       "n", "g", "u", "r", "a", "i", " ", "a", "c", "t", "i", "o", "n",
       " ", "i", "t", "e", "m", "s", " ", "d", "a", "r", "i", " ", "t",
       "r", "a", "n", "s", "k", "r", "i", "p" >>

\* if not any(summary_data.values())
NeedsFallback(sd) ==
    sd.agenda = << >> /\ sd.summary = << >> /\ sd.action_items = << >>

\* the fallback with the text as it came
Fallback_untrimmed(generated_text) ==
    [agenda |-> CouldNotParseAgenda,
     summary |-> generated_text,
     action_items |-> CouldNotParseActionItems]
\* summary_data["summary"] = generated_text.strip() and the two placeholders
\* (gemini_api.py:208-210)
Fallback(generated_text) ==
    [agenda |-> CouldNotParseAgenda,
     summary |-> Strip(generated_text),
     action_items |-> CouldNotParseActionItems]

parse_gemini_response(generated_text) ==
    LET lines == Split(Strip(generated_text), "\n")
        sd == FinalFlush(ParseLines(ParserStart, lines))
    IN  IF NeedsFallback(sd) THEN Fallback(generated_text) ELSE sd

(***************************************************************************)
(* format_summary_for_frontend (gemini_api.py:224-250).                    *)
(***************************************************************************)
\* "Tidak ada agenda yang teridentifikasi"
AgendaDefault ==
    << "T", "i", "d", "a", "k", " ", "a", "d", "a", " ", "a", "g", "e", "n",
       "d", "a", " ", "y", "a", "n", "g", " ", "t", "e", "r", "i", "d",
       "e", "n", "t", "i", "f", "i", "k", "a", "s", "i" >>

\* "Tidak ada ringkasan tersedia"
SummaryDefault ==
    << "T", "i", "d", "a", "k", " ", "a", "d", "a", " ", "r", "i", "n", "g",
       "k", "a", "s", "a", "n", " ", "t", "e", "r", "s", "e", "d", "i",
       "a" >>

\* "Tidak ada action items yang teridentifikasi"
ActionItemsDefault ==
    << "T", "i", "d", "a", "k", " ", "a", "d", "a", " ", "a", "c", "t", "i",
       "o", "n", " ", "i", "t", "e", "m", "s", " ", "y", "a", "n", "g",
       " ", "t", "e", "r", "i", "d", "e", "n", "t", "i", "f", "i", "k",
       "a", "s", "i" >>

\* d.get(key, default): the default only when d has no key `key`
GetOr(d, key, default) == IF key \in DOMAIN d THEN d[key] ELSE default

\* the headings of the composite summary
AgendaHeading == << "A", "g", "e", "n", "d", "a", ":", "\n" >>

SummaryHeading ==
    << "\n", "\n", "R", "i", "n", "g", "k", "a", "s", "a", "n", ":", "\n" >>

ActionItemsHeading ==
    << "\n", "\n", "A", "c", "t", "i", "o", "n", " ", "I", "t", "e", "m", "s",
       ":", "\n" >>

format_summary_for_frontend(sd) ==
    [summary |->
        AgendaHeading \o GetOr(sd, "agenda", AgendaDefault)
        \o SummaryHeading \o GetOr(sd, "summary", SummaryDefault)
        \o ActionItemsHeading \o GetOr(sd, "action_items", ActionItemsDefault),
     agenda |-> GetOr(sd, "agenda", AgendaDefault),
     key_points |-> GetOr(sd, "summary", SummaryDefault),
     action_items |-> GetOr(sd, "action_items", ActionItemsDefault)]

(***************************************************************************)
(* Inputs.                                                                 *)
(***************************************************************************)
\* sizes around the two limits of the size check
Sizes == {0, 1, 2097152, MAX_FILE_SIZE - 1, MAX_FILE_SIZE, MAX_FILE_SIZE + 1}

FileNames ==
    { << "a", ".", "m", "p", "3" >>, << "a", ".", "w", "a", "v" >>,
      << "a", ".", "m", "p", "4" >>, << "a", ".", "a", "v", "i" >>,
      << "a", ".", "m", "o", "v" >>, << "a", ".", "m", "4", "a" >>,
      << "a", ".", "f", "l", "a", "c" >>, << "a", ".", "o", "g", "g" >>,
      << "a", ".", "M", "P", "3" >>, << "a", ".", "W", "a", "v" >>,
      << "A", ".", "F", "L", "A", "C" >>, << "a", ".", "O", "g", "G" >>,
      << "a", ".", "p", "d", "f" >>, << "a", ".", "P", "D", "F" >>,
      << "a" >>, << >>, << "a", "." >>, << ".", "m", "p", "3" >>,
      << "a", ".", "m", "p" >>, << "a", ".", "m", "p", "3", "3" >>,
      << "a", ".", "m", "p", "3", ".", "p", "d", "f" >>,
      << "a", ".", "p", "d", "f", ".", "w", "a", "v" >>,
      << "a", ".", "m", "p", "3", "/", "b" >>, << "a", "m", "p", "3" >> }

\* a body of k characters "a" whose sp-th character is a space (none if sp = 0)
Body(k, sp) == [i \in 1..k |-> IF i = sp THEN " " ELSE "a"]

Transcripts ==
    { Rep(" ", i) \o Body(k, sp) \o Rep(" ", j) :
        i \in 0..MaxPad, j \in 0..MaxPad,
        k \in 0..MaxCoreLen, sp \in 0..MaxCoreLen }

\* the JSON body of a /summarize request
BodyKinds == {"invalid_json", "not_an_object", "no_transcript_key", "transcript_not_text", "text"}

ProviderText == << "H", "e", "l", "l", "o" >>

\* a key of the payload that is left out
Absent == [type |-> "absent", text |-> << >>, items |-> << >>, fields |-> << >>]

\* the dict with the entries whose value is not Absent, in the order given
DictOf(entries) == Dict(SelectSeq(entries, LAMBDA e : e.value # Absent))

\* values of the payload's `prediction`
PredictionValues ==
    { Absent, Str(ProviderText), Str(<< >>), Null, Num, List(<< >>),
      List(<< Str(<< "a" >>), Str(<< "b" >>) >>),
      List(<< Dict(<< Entry("text", Str(<< "x" >>)),
                      Entry("transcription", Str(<< "t" >>)) >>),
              Num,
              Str(<< "c" >>),
              Dict(<< Entry("segment", Str(<< "g" >>)),
                      Entry("sentence", Num) >>) >>),
      List(<< Dict(<< Entry("words", Str(<< "w" >>)) >>), Num, Null >>),
      Dict(<< Entry("text", Str(<< "d" >>)) >>),
      Dict(<< Entry("transcription", Str(<< "t" >>)) >>),
      Dict(<< Entry("segment", Num), Entry("sentence", Str(<< "e" >>)) >>) }

\* values of the payload's `text`
TextValues == { Absent, Str(<< "T" >>), Str(<< >>), Num }

\* values of `transcription`, `full_text`, `prediction_raw` and `request_id`
TranscriptionValues == { Absent, Str(<< "R" >>) }

FullTextValues == { Absent, Str(<< "F" >>) }

PredictionRawValues == { Absent, Dict(<< Entry("status", Str(<< "k" >>)) >>) }

RequestIdValues == { Absent, Str(<< "7" >>) }

\* values of the payload's `result`
ResultValues ==
    { Absent, Str(<< "r" >>),
      Dict(<< Entry("text", Str(<< "n" >>)) >>),
      Dict(<< Entry("prediction", Str(<< "q" >>)) >>),
      Dict(<< Entry("transcript", Str(<< "u" >>)) >>),
      Dict(<< Entry("full_text", Num), Entry("transcription", Str(<< "v" >>)) >>) }

\* values of the payload's `data`
DataValues == { Absent, Null, Dict(<< Entry("full_text", Str(<< "m" >>)) >>) }

\* the JSON objects the provider answers with
Payloads ==
    { DictOf(<< Entry("request_id", id), Entry("prediction", p),
                Entry("prediction_raw", raw), Entry("text", t),
                Entry("transcription", tr), Entry("full_text", ft),
                Entry("result", r), Entry("data", d) >>) :
        id \in RequestIdValues, p \in PredictionValues,
        raw \in PredictionRawValues, t \in TextValues,
        tr \in TranscriptionValues, ft \in FullTextValues,
        r \in ResultValues, d \in DataValues }

\* what requests.post and response.json() can give
GladiaResponses ==
    { Response(k, Null) : k \in {"exception", "non_200", "non_json_200"} }
    \cup { Response("json", p) : p \in Payloads }
    \cup { Response("json", v) : v \in {Null, Num, Str(ProviderText), List(<< >>)} }

\* the responses a request is answered with: one of each kind
SampleResponses ==
    { Response("exception", Null), Response("non_200", Null),
      Response("non_json_200", Null), Response("json", List(<< >>)),
      Response("json", Dict(<< Entry("prediction", Str(ProviderText)) >>)),
      Response("json", Dict(<< Entry("prediction", Str(<< >>)) >>)),
      Response("json", Dict(<< Entry("request_id", Str(<< "7" >>)) >>)),
      Response("json", Dict(<< Entry("result",
                    Dict(<< Entry("text", Str(<< "n" >>)) >>)) >>)) }

\* most sections (a heading and the lines under it) of a summary text
MaxSections == 3

Tags == {"agenda", "summary", "action_items"}

\* the lines of the summary texts, by name
LineText(id) ==
    CASE id = "bullet"   -> << "-", " ", "a" >>
      [] id = "emphasis" -> << "b", " ", "*", "c", "*" >>
      [] id = "bold"     -> << "*", "*", "d", "*", "*", " ", "e" >>
      [] id = "indented" -> << " ", " ", "f", " " >>
      [] id = "intro"    -> << "H", "a", "s", "i", "l", " ", "r", "a", "p", "a", "t" >>
      [] OTHER           -> << >>

\* the lines under a heading
Bodies ==
    { << >>, << "bullet" >>, << "emphasis", "bold" >>,
      << "indented", "blank", "bullet" >> }

\* the heading lines: the three the prompt asks for, three plain ones, the
\* three of the prompt with text after them on the line, and three lines
\* that hold the words of more than one heading
HeaderText(tag, form) ==
    CASE tag = "agenda" /\ form = "canonical"  -> << "*", "*", "A", "G", "E", "N", "D", "A", ":", "*", "*" >>
      [] tag = "summary" /\ form = "canonical" -> << "*", "*", "R", "I", "N", "G", "K", "A", "S", "A", "N", ":", "*", "*" >>
      [] tag = "action_items" /\ form = "canonical" ->
            << "*", "*", "A", "C", "T", "I", "O", "N", " ", "I", "T", "E", "M", "S", ":", "*", "*" >>
      [] tag = "agenda" /\ form = "plain"  -> << "A", "g", "e", "n", "d", "a", ":" >>
      [] tag = "summary" /\ form = "plain" -> << "S", "u", "m", "m", "a", "r", "y", ":", " ", "k" >>
      [] tag = "agenda" /\ form = "trailing" ->
            << "*", "*", "A", "G", "E", "N", "D", "A", ":", "*", "*", " ", "g" >>
      [] tag = "summary" /\ form = "trailing" ->
            << "*", "*", "R", "I", "N", "G", "K", "A", "S", "A", "N", ":", "*", "*", " ", "h" >>
      [] tag = "action_items" /\ form = "trailing" ->
            << "*", "*", "A", "C", "T", "I", "O", "N", " ", "I", "T", "E", "M", "S", ":", "*", "*",
               " ", "*", "i", "*" >>
      [] tag = "agenda" /\ form = "mixed" ->
            << "S", "u", "m", "m", "a", "r", "y", " ", "a", "c", "t", "i", "o", "n", " ",
               "i", "t", "e", "m", "s", ":", " ", "a", "g", "e", "n", "d", "a" >>
      [] tag = "summary" /\ form = "mixed" ->
            << "A", "c", "t", "i", "o", "n", " ", "i", "t", "e", "m", "s", ":", " ",
               "s", "u", "m", "m", "a", "r", "y" >>
      [] tag = "action_items" /\ form = "mixed" ->
            << "A", "C", "T", "I", "O", "N", " ", "I", "T", "E", "M", "S", ":" >>
      [] OTHER -> << "a", "c", "t", "i", "o", "n", " ", "i", "t", "e", "m", "s", ":" >>

\* the lines before the first heading, and the form of the headings
Styles ==
    { [preamble |-> << >>, form |-> "canonical"],
      [preamble |-> << "intro" >>, form |-> "canonical"],
      [preamble |-> << "blank", "indented" >>, form |-> "plain"],
      [preamble |-> << >>, form |-> "trailing"],
      [preamble |-> << "intro" >>, form |-> "mixed"] }

Sections == [tag : Tags, body : Bodies]

\* a summary text by its make-up: a preamble and up to MaxSections sections
Layouts ==
    { [style |-> st, sections |-> secs] :
        st \in Styles,
        secs \in UNION { [1..n -> Sections] : n \in 0..MaxSections } }

\* the texts of the lines named by ids
Texts(ids) == [i \in 1..Len(ids) |-> LineText(ids[i])]

RECURSIVE SectionLines(_, _)
SectionLines(secs, form) ==
    IF secs = << >> THEN << >>
    ELSE << HeaderText(Head(secs).tag, form) >> \o Texts(Head(secs).body)
         \o SectionLines(Tail(secs), form)

\* the text the summarization provider returned, for a make-up
Render(layout) ==
    JoinLines(Texts(layout.style.preamble)
              \o SectionLines(layout.sections, layout.style.form))

VARIABLES
    pc,             \* position of the handler
    endpoint,       \* the endpoint of the request
    file_present,   \* upload: whether `file` is truthy
    filename,       \* file.filename / request.file_name (None: no filename)
    file_size,      \* len(content) of the uploaded or downloaded bytes
    body_kind,      \* /summarize: the shape of the request body
    raw_transcript, \* /summarize: body["transcript"] as sent
    transcript,     \* the transcript the handler holds
    transcribe_error,
    gladia_calls,   \* the calls made to the transcription provider
    attempted,      \* the model identifiers tried, in order
    attempt_log,    \* what each attempt ended in
    last_err,       \* generate_meeting_summary's last_err
    summary_data,   \* what generate_meeting_summary returned
    temp_file_path, \* /transcribe-url: the handler's temp_file_path
    temp_files,     \* the temporary files on disk
    written,        \* bytes written to the temporary file
    fault,          \* the step at which an unexpected exception was raised
    validated,      \* the request passed its validation
    outcome         \* what the client gets

\* the variables of one request
request_vars ==
    << pc, endpoint, file_present, filename, file_size, body_kind,
       raw_transcript, transcript, transcribe_error, gladia_calls,
       attempted, attempt_log, last_err, summary_data, temp_file_path,
       temp_files, written, fault, validated, outcome >>

\* One call of transcribe_audio_from_upload, taken by itself.
VARIABLES
    gpc,            \* position of the call
    response,       \* what requests.post and response.json() gave
    extracted,      \* what _extract_transcript returned
    returned        \* the (transcript, error) returned

gladia_vars == << gpc, response, extracted, returned >>

\* One summary text through parse_gemini_response and
\* format_summary_for_frontend.
VARIABLES
    ppc,            \* position: the text, parsed, formatted
    layout,         \* the make-up of the text
    generated_text, \* the text the summarization provider returned
    parsed,         \* what parse_gemini_response returned
    formatted       \* what format_summary_for_frontend returned

parser_vars == << ppc, layout, generated_text, parsed, formatted >>

\* Requests to /transcribe-url handled at the same time.
VARIABLES
    requests,       \* the state of each request
    disk            \* the temporary files on disk, each with its content

concurrent_vars == << requests, disk >>

\* the variables the request handlers leave alone
aux_vars == << gladia_vars, parser_vars, concurrent_vars >>

vars == << request_vars, aux_vars >>

NoOutcome == [kind |-> "none", status |-> 0, provider |-> None, message |-> None, error |-> NoErr]

\* raise HTTPException(status_code, detail)
HTTPException(status, provider, message, error) ==
    [kind |-> "http", status |-> status, provider |-> provider, message |-> message, error |-> error]

\* JSONResponse(status_code=200, ...)
JSONResponse(message) ==
    [kind |-> "http", status |-> 200, provider |-> None, message |-> message, error |-> NoErr]

\* an exception that leaves the handler function
Unhandled(error) ==
    [kind |-> "unhandled", status |-> 0, provider |-> None, message |-> None, error |-> Diag(error)]

\* except Exception as e: raise HTTPException(500, f"Internal server error: {e}")
InternalError(error) == HTTPException(500, None, "internal_server_error", Diag(error))

\* no call of transcribe_audio_from_upload is being looked at
NoResponse == Response("none", Null)

NotReturned == [transcript |-> NoText, error |-> NoDiagnostic]

GladiaIdle ==
    /\ gpc = "idle"
    /\ response = NoResponse
    /\ extracted = NoText
    /\ returned = NotReturned

\* the state in which a request arrives
RequestInit ==
    /\ pc = "idle"
    /\ endpoint = None
    /\ file_present = FALSE
    /\ filename = NoText
    /\ file_size = 0
    /\ body_kind = None
    /\ raw_transcript = NoText
    /\ transcript = NoText
    /\ transcribe_error = NoDiagnostic
    /\ gladia_calls = << >>
    /\ attempted = << >>
    /\ attempt_log = << >>
    /\ last_err = NoErr
    /\ summary_data = NoSummary
    /\ temp_file_path = None
    /\ temp_files = {}
    /\ written = 0
    /\ fault = None
    /\ validated = FALSE
    /\ outcome = NoOutcome

NoLayout == [style |-> [preamble |-> << >>, form |-> "canonical"], sections |-> << >>]

NotParsed == [agenda |-> NoText, summary |-> NoText, action_items |-> NoText]

NotFormatted ==
    [summary |-> NoText, agenda |-> NoText, key_points |-> NoText,
     action_items |-> NoText]

\* no summary text is being looked at
ParserIdle ==
    /\ ppc = "idle"
    /\ layout = NoLayout
    /\ generated_text = NoText
    /\ parsed = NotParsed
    /\ formatted = NotFormatted

\* no concurrent requests are being looked at
ConcurrentIdle ==
    /\ requests = << >>
    /\ disk = {}

Init ==
    /\ RequestInit
    /\ GladiaIdle
    /\ ParserIdle
    /\ ConcurrentIdle

\* The handler ends with outcome o.  /transcribe-url runs its finally block
\* before the outcome leaves the handler.
End(o) ==
    /\ outcome' = o
    /\ pc' = IF endpoint = "transcribe_url" THEN "finally" ELSE "done"

(***************************************************************************)
(* /upload and /transcribe: validation (main.py:137-159, 384-407).          *)
(***************************************************************************)
\* a multipart request arrives at /upload or /transcribe
upload_request(ep) ==
    /\ pc = "idle"
    /\ endpoint' = ep
    /\ file_present' \in BOOLEAN
    /\ filename' \in FileNames \cup {NoText}
    /\ pc' = "check_file"
    /\ UNCHANGED << file_size, body_kind, raw_transcript, transcript,
                    transcribe_error, gladia_calls, attempted, attempt_log,
                    last_err, summary_data, temp_file_path, temp_files,
                    written, fault, validated, outcome >>
    /\ UNCHANGED aux_vars

\* if not file: raise HTTPException(400)
check_file ==
    /\ pc = "check_file"
    /\ IF ~file_present
       THEN End(HTTPException(400, None, "no_file_uploaded", NoErr))
       ELSE pc' = "read_file" /\ UNCHANGED outcome
    /\ UNCHANGED << endpoint, file_present, filename, file_size, body_kind,
                    raw_transcript, transcript, transcribe_error, gladia_calls,
                    attempted, attempt_log, last_err, summary_data,
                    temp_file_path, temp_files, written, fault, validated >>
    /\ UNCHANGED aux_vars

\* content = await file.read(); file_size = len(content)
\* The read is outside the handler's try block: an exception leaves the handler.
read_file ==
    /\ pc = "read_file"
    /\ \/ /\ \E size \in Sizes : file_size' = size
          /\ pc' = "check_size"
          /\ UNCHANGED << fault, outcome >>
       \/ /\ fault' = "read_file"
          /\ End(Unhandled("read_error"))
          /\ UNCHANGED file_size
    /\ UNCHANGED << endpoint, file_present, filename, body_kind,
                    raw_transcript, transcript, transcribe_error, gladia_calls,
                    attempted, attempt_log, last_err, summary_data,
                    temp_file_path, temp_files, written, validated >>
    /\ UNCHANGED aux_vars

\* if file_size > 100 MiB: 413;  if file_size == 0: 400
check_size ==
    /\ pc = "check_size"
    /\ IF SizeTooLarge(file_size)
       THEN End(HTTPException(413, None, "file_too_large", NoErr))
       ELSE IF file_size = 0
            THEN End(HTTPException(400, None, "empty_file", NoErr))
            ELSE pc' = "check_ext" /\ UNCHANGED outcome
    /\ UNCHANGED << endpoint, file_present, filename, file_size, body_kind,
                    raw_transcript, transcript, transcribe_error, gladia_calls,
                    attempted, attempt_log, last_err, summary_data,
                    temp_file_path, temp_files, written, fault, validated >>
    /\ UNCHANGED aux_vars

\* check_ext with the extension check placed after the provider call
check_ext_after_call ==
    /\ pc = "check_ext"
    /\ filename # NoText
    /\ gladia_calls' = Append(gladia_calls,
           [filename |-> filename, mime |-> _guess_mime_type(filename),
            size |-> file_size])
    /\ IF ~ExtensionAllowed(filename)
       THEN /\ End(HTTPException(400, None, "unsupported_file_type", NoErr))
            /\ UNCHANGED validated
       ELSE /\ validated' = TRUE
            /\ pc' = "transcribe"
            /\ UNCHANGED outcome
    /\ UNCHANGED << endpoint, file_present, filename, file_size, body_kind,
                    raw_transcript, transcript, transcribe_error, attempted,
                    attempt_log, last_err, summary_data, temp_file_path,
                    temp_files, written, fault >>
    /\ UNCHANGED aux_vars

\* file_extension = os.path.splitext(file.filename.lower())[1]
\* if file_extension not in allowed_extensions: 400
\* file.filename.lower() raises AttributeError when the part has no filename;
\* this too is outside the try block.
check_ext ==
    /\ pc = "check_ext"
    /\ IF filename = NoText
       THEN /\ fault' = "filename"
            /\ End(Unhandled("attribute_error"))
            /\ UNCHANGED validated
       ELSE IF ~ExtensionAllowed(filename)
            THEN /\ End(HTTPException(400, None, "unsupported_file_type", NoErr))
                 /\ UNCHANGED << fault, validated >>
            ELSE /\ validated' = TRUE
                 /\ pc' = "transcribe"
                 /\ UNCHANGED << fault, outcome >>
    /\ UNCHANGED << endpoint, file_present, filename, file_size, body_kind,
                    raw_transcript, transcript, transcribe_error, gladia_calls,
                    attempted, attempt_log, last_err, summary_data,
                    temp_file_path, temp_files, written >>
    /\ UNCHANGED aux_vars

(***************************************************************************)
(* The transcription step of /upload, /transcribe and /transcribe-url      *)
(* (main.py:165-179, 315-329, 416-430).                                    *)
(***************************************************************************)
\* transcript, transcribe_error = transcribe_audio_from_upload(content, name, key)
\* if not transcript: raise HTTPException(500, provider gladia)
transcribe ==
    /\ pc = "transcribe"
    /\ \E resp \in SampleResponses :
         LET r == transcribe_audio_from_upload(resp)
         IN  /\ gladia_calls' = Append(gladia_calls,
                    [filename |-> filename, mime |-> _guess_mime_type(filename),
                     size |-> file_size])
             /\ transcript' = r.transcript
             /\ transcribe_error' = r.error
             /\ IF ~Truthy(r.transcript)
                THEN End(HTTPException(500, "gladia", "failed_to_transcribe", Diag(r.error.message)))
                ELSE /\ pc' = IF endpoint = "upload" THEN "client_init" ELSE "present"
                     /\ UNCHANGED outcome
    /\ UNCHANGED << endpoint, file_present, filename, file_size, body_kind,
                    raw_transcript, attempted, attempt_log, last_err,
                    summary_data, temp_file_path, temp_files, written, fault,
                    validated >>
    /\ UNCHANGED aux_vars

(***************************************************************************)
(* generate_meeting_summary (gemini_api.py:72-123), called by /upload and   *)
(* /summarize.                                                             *)
(***************************************************************************)
\* client = genai.Client(...); on an exception return the error value
client_init ==
    /\ pc = "client_init"
    /\ \/ /\ pc' = "try_model"
          /\ UNCHANGED summary_data
       \/ /\ summary_data' = ErrorSummary([error |-> "client_init_error", model |-> None])
          /\ pc' = "after_summarize"
    /\ UNCHANGED << endpoint, file_present, filename, file_size, body_kind,
                    raw_transcript, transcript, transcribe_error, gladia_calls,
                    attempted, attempt_log, last_err, temp_file_path,
                    temp_files, written, fault, validated, outcome >>
    /\ UNCHANGED aux_vars

\* one iteration of `for model in candidate_models`, and the return after the
\* last one
try_model ==
    /\ pc = "try_model"
    /\ Len(attempted) < Len(candidate_models)
    /\ \E r \in AttemptResults :
         LET model == NextCandidate(attempted)
             err == NewLastErr(last_err, r, model)
         IN  /\ attempted' = Append(attempted, model)
             /\ attempt_log' = Append(attempt_log, r)
             /\ IF AttemptSucceeded(r)
                THEN /\ summary_data' = ParsedSummary
                     /\ pc' = "after_summarize"
                     /\ UNCHANGED last_err
                ELSE /\ last_err' = err
                     /\ IF Len(attempted) + 1 = Len(candidate_models)
                        THEN /\ summary_data' = ErrorSummary(err)
                             /\ pc' = "after_summarize"
                        ELSE UNCHANGED << summary_data, pc >>
    /\ UNCHANGED << endpoint, file_present, filename, file_size, body_kind,
                    raw_transcript, transcript, transcribe_error, gladia_calls,
                    temp_file_path, temp_files, written, fault, validated,
                    outcome >>
    /\ UNCHANGED aux_vars

\* if not summary_data or summary_data.get("_error"): raise HTTPException(502)
after_summarize ==
    /\ pc = "after_summarize"
    /\ IF SummaryFailed(summary_data)
       THEN End(HTTPException(502, "gemini", "failed_to_summarize", summary_data.details))
       ELSE pc' = "present" /\ UNCHANGED outcome
    /\ UNCHANGED << endpoint, file_present, filename, file_size, body_kind,
                    raw_transcript, transcript, transcribe_error, gladia_calls,
                    attempted, attempt_log, last_err, summary_data,
                    temp_file_path, temp_files, written, fault, validated >>
    /\ UNCHANGED aux_vars

\* format_summary_for_frontend and return JSONResponse(200).  An exception
\* while the response is built (for instance text that cannot be encoded) is
\* inside the try block: except Exception turns it into a 500.
present ==
    /\ pc = "present"
    /\ \/ /\ End(JSONResponse("success"))
          /\ UNCHANGED fault
       \/ /\ fault' = "present"
          /\ End(InternalError("render_error"))
    /\ UNCHANGED << endpoint, file_present, filename, file_size, body_kind,
                    raw_transcript, transcript, transcribe_error, gladia_calls,
                    attempted, attempt_log, last_err, summary_data,
                    temp_file_path, temp_files, written, validated >>
    /\ UNCHANGED aux_vars


(***************************************************************************)
(* /summarize: validation (main.py:219-229).                                *)
(***************************************************************************)
\* a request arrives at /summarize
summarize_request ==
    /\ pc = "idle"
    /\ endpoint' = "summarize"
    /\ \E kind \in BodyKinds :
         /\ body_kind' = kind
         /\ raw_transcript' \in IF kind = "text" THEN Transcripts ELSE {NoText}
    /\ pc' = "parse_body"
    /\ UNCHANGED << file_present, filename, file_size, transcript,
                    transcribe_error, gladia_calls, attempted, attempt_log,
                    last_err, summary_data, temp_file_path, temp_files,
                    written, fault, validated, outcome >>
    /\ UNCHANGED aux_vars

\* the transcript taken without .strip()
TranscriptOf_nostrip(raw) == raw
\* transcript = body.get("transcript", "").strip()
TranscriptOf(raw) == Strip(raw)

\* if len(transcript) < 10
TooShort(t) == Len(t) < MIN_TRANSCRIPT_LEN

\* try: body = await request.json(); transcript = body.get(...).strip()
\* except Exception: raise HTTPException(400, "Invalid JSON request")
\* A body that is not JSON, not an object, or whose transcript is not a text
\* raises inside this try and is answered 400 by its except clause.
parse_body ==
    /\ pc = "parse_body"
    /\ IF body_kind \in {"invalid_json", "not_an_object", "transcript_not_text"}
       THEN /\ End(HTTPException(400, None, "invalid_json_request", NoErr))
            /\ UNCHANGED transcript
       ELSE /\ transcript' = IF body_kind = "no_transcript_key"
                             THEN << >>
                             ELSE TranscriptOf(raw_transcript)
            /\ pc' = "check_transcript"
            /\ UNCHANGED outcome
    /\ UNCHANGED << endpoint, file_present, filename, file_size, body_kind,
                    raw_transcript, transcribe_error, gladia_calls, attempted,
                    attempt_log, last_err, summary_data, temp_file_path,
                    temp_files, written, fault, validated >>
    /\ UNCHANGED aux_vars

\* if not transcript: 400;  if len(transcript) < 10: 400
check_transcript ==
    /\ pc = "check_transcript"
    /\ IF transcript = << >>
       THEN End(HTTPException(400, None, "no_transcript_provided", NoErr))
            /\ UNCHANGED validated
       ELSE IF TooShort(transcript)
            THEN End(HTTPException(400, None, "transcript_too_short", NoErr))
                 /\ UNCHANGED validated
            ELSE /\ validated' = TRUE
                 /\ pc' = "client_init"
                 /\ UNCHANGED outcome
    /\ UNCHANGED << endpoint, file_present, filename, file_size, body_kind,
                    raw_transcript, transcript, transcribe_error, gladia_calls,
                    attempted, attempt_log, last_err, summary_data,
                    temp_file_path, temp_files, written, fault >>
    /\ UNCHANGED aux_vars

(***************************************************************************)
(* /transcribe-url (main.py:293-359) with download_file_from_cloudinary and *)
(* cleanup_temp_file (cloudinary_utils.py:38-101).                         *)
(***************************************************************************)
\* the name tempfile.NamedTemporaryFile gives the file of this request
TempName == "/tmp/tmp_request"

\* a request arrives at /transcribe-url; file_name is the caller's
url_request ==
    /\ pc = "idle"
    /\ endpoint' = "transcribe_url"
    /\ filename' \in FileNames
    /\ pc' = "download_get"
    /\ UNCHANGED << file_present, file_size, body_kind, raw_transcript,
                    transcript, transcribe_error, gladia_calls, attempted,
                    attempt_log, last_err, summary_data, temp_file_path,
                    temp_files, written, fault, validated, outcome >>
    /\ UNCHANGED aux_vars

\* response = requests.get(file_url, stream=True, timeout=300)
\* response.raise_for_status(); an exception makes the download return None
download_get ==
    /\ pc = "download_get"
    /\ \/ pc' = "download_create"
       \/ pc' = "after_download"
    /\ UNCHANGED << endpoint, file_present, filename, file_size, body_kind,
                    raw_transcript, transcript, transcribe_error, gladia_calls,
                    attempted, attempt_log, last_err, summary_data,
                    temp_file_path, temp_files, written, fault, validated,
                    outcome >>
    /\ UNCHANGED aux_vars

\* temp_file = tempfile.NamedTemporaryFile(delete=False, suffix=...)
download_create ==
    /\ pc = "download_create"
    /\ \/ /\ temp_files' = temp_files \cup {TempName}
          /\ pc' = "download_write"
       \/ /\ pc' = "after_download"
          /\ UNCHANGED temp_files
    /\ UNCHANGED << endpoint, file_present, filename, file_size, body_kind,
                    raw_transcript, transcript, transcribe_error, gladia_calls,
                    attempted, attempt_log, last_err, summary_data,
                    temp_file_path, written, fault, validated, outcome >>
    /\ UNCHANGED aux_vars

\* for chunk in response.iter_content(8192): temp_file.write(chunk)
\* temp_file.close(); return temp_file.name
\* An exception while the chunks are read or written is caught by the
\* function's except clauses, which return None and leave the file on disk.
download_write ==
    /\ pc = "download_write"
    /\ \E size \in Sizes :
         \/ /\ written' = size
            /\ temp_file_path' = TempName
         \/ /\ written' = size \div 2
            /\ UNCHANGED temp_file_path
    /\ pc' = "after_download"
    /\ UNCHANGED << endpoint, file_present, filename, file_size, body_kind,
                    raw_transcript, transcript, transcribe_error, gladia_calls,
                    attempted, attempt_log, last_err, summary_data,
                    temp_files, fault, validated, outcome >>
    /\ UNCHANGED aux_vars

\* if not temp_file_path: raise HTTPException(500, "Failed to download ...")
after_download ==
    /\ pc = "after_download"
    /\ IF temp_file_path = None
       THEN End(HTTPException(500, None, "failed_to_download", NoErr))
       ELSE pc' = "read_temp" /\ UNCHANGED outcome
    /\ UNCHANGED << endpoint, file_present, filename, file_size, body_kind,
                    raw_transcript, transcript, transcribe_error, gladia_calls,
                    attempted, attempt_log, last_err, summary_data,
                    temp_file_path, temp_files, written, fault, validated >>
    /\ UNCHANGED aux_vars

\* read_temp followed by the extension check of /transcribe
read_temp_validated ==
    /\ pc = "read_temp"
    /\ file_size' = written
    /\ IF ~ExtensionAllowed(filename)
       THEN End(HTTPException(400, None, "unsupported_file_type", NoErr))
       ELSE pc' = "transcribe" /\ UNCHANGED outcome
    /\ UNCHANGED << endpoint, file_present, filename, body_kind,
                    raw_transcript, transcript, transcribe_error, gladia_calls,
                    attempted, attempt_log, last_err, summary_data,
                    temp_file_path, temp_files, written, fault, validated >>
    /\ UNCHANGED aux_vars

\* with open(temp_file_path, 'rb') as f: file_content = f.read()
\* No size or extension check follows: the bytes and request.file_name go to
\* the transcription step as they are.
read_temp ==
    /\ pc = "read_temp"
    /\ \/ /\ file_size' = written
          /\ pc' = "transcribe"
          /\ UNCHANGED << fault, outcome >>
       \/ /\ fault' = "read_temp"
          /\ End(InternalError("os_error"))
          /\ UNCHANGED file_size
    /\ UNCHANGED << endpoint, file_present, filename, body_kind,
                    raw_transcript, transcript, transcribe_error, gladia_calls,
                    attempted, attempt_log, last_err, summary_data,
                    temp_file_path, temp_files, written, validated >>
    /\ UNCHANGED aux_vars

\* if file_path and os.path.exists(file_path): os.unlink(file_path)
cleanup_temp_file(files, file_path) ==
    IF file_path # None /\ file_path \in files THEN files \ {file_path} ELSE files

\* finally: if temp_file_path: cleanup_temp_file(temp_file_path)
finally ==
    /\ pc = "finally"
    /\ temp_files' = IF temp_file_path # None
                     THEN cleanup_temp_file(temp_files, temp_file_path)
                     ELSE temp_files
    /\ pc' = "done"
    /\ UNCHANGED << endpoint, file_present, filename, file_size, body_kind,
                    raw_transcript, transcript, transcribe_error, gladia_calls,
                    attempted, attempt_log, last_err, summary_data,
                    temp_file_path, written, fault, validated, outcome >>
    /\ UNCHANGED aux_vars

Next ==
    \/ \E ep \in {"upload", "transcribe"} : upload_request(ep)
    \/ check_file
    \/ read_file
    \/ check_size
    \/ check_ext
    \/ transcribe
    \/ client_init
    \/ try_model
    \/ after_summarize
    \/ present
    \/ summarize_request
    \/ parse_body
    \/ check_transcript
    \/ url_request
    \/ download_get
    \/ download_create
    \/ download_write
    \/ after_download
    \/ read_temp
    \/ finally

Spec == Init /\ [][Next]_vars

(***************************************************************************)
(* transcribe_audio_from_upload taken by itself: the provider has answered  *)
(* with any of GladiaResponses, _extract_transcript runs on a JSON answer,  *)
(* and the function returns.                                               *)
(***************************************************************************)
GladiaInit ==
    /\ RequestInit
    /\ ParserIdle
    /\ ConcurrentIdle
    /\ gpc = "posted"
    /\ response \in GladiaResponses
    /\ extracted = NoText
    /\ returned = NotReturned

\* transcript = _extract_transcript(result)  (gladia_api.py:188)
call_extract ==
    /\ gpc = "posted"
    /\ response.kind = "json"
    /\ extracted' = _extract_transcript(response.payload)
    /\ gpc' = "extracted"
    /\ UNCHANGED << response, returned, request_vars, parser_vars, concurrent_vars >>

\* the return statements of transcribe_audio_from_upload
return_transcription ==
    /\ \/ gpc = "posted" /\ response.kind # "json"
       \/ gpc = "extracted"
    /\ returned' = transcribe_audio_from_upload(response)
    /\ gpc' = "returned"
    /\ UNCHANGED << response, extracted, request_vars, parser_vars, concurrent_vars >>

GladiaNext == call_extract \/ return_transcription

GladiaSpec == GladiaInit /\ [][GladiaNext]_vars

(***************************************************************************)
(* parse_gemini_response and format_summary_for_frontend taken by          *)
(* themselves, on each text of Layouts.                                    *)
(***************************************************************************)
ParserInit ==
    /\ RequestInit
    /\ GladiaIdle
    /\ ConcurrentIdle
    /\ ppc = "text"
    /\ layout \in Layouts
    /\ generated_text = Render(layout)
    /\ parsed = NotParsed
    /\ formatted = NotFormatted

\* return parse_gemini_response(text)  (gemini_api.py:110)
parse_response ==
    /\ ppc = "text"
    /\ parsed' = parse_gemini_response(generated_text)
    /\ ppc' = "parsed"
    /\ UNCHANGED << layout, generated_text, formatted, request_vars,
                    gladia_vars, concurrent_vars >>

\* formatted_summary = format_summary_for_frontend(summary_data)
\* (main.py:246, 453)
format_response ==
    /\ ppc = "parsed"
    /\ formatted' = format_summary_for_frontend(parsed)
    /\ ppc' = "formatted"
    /\ UNCHANGED << layout, generated_text, parsed, request_vars,
                    gladia_vars, concurrent_vars >>

ParserNext == parse_response \/ format_response

ParserSpec == ParserInit /\ [][ParserNext]_vars

(***************************************************************************)
(* Requests handled at the same time (main.py:125-204, 282-359 with         *)
(* cloudinary_utils.py:38-101).  A handler keeps what it works on in its    *)
(* local variables; the temporary files are on the disk all requests see.   *)
(* A step of one request is taken between any two steps of another.  What   *)
(* the storage and the transcription provider answer to a request is fixed  *)
(* when the request arrives (its script).                                  *)
(***************************************************************************)
\* the requests handled at the same time
NumRequests == 2

Requests == 1..NumRequests

\* the names tempfile.NamedTemporaryFile can give (0: no file)
TempNames == 1..NumRequests

\* what a request is answered: by the storage (the download succeeds, the GET
\* fails, the stream breaks while the chunks are written) and by the
\* transcription provider
Scripts ==
    [endpoint : {"transcribe_url"},
     download : {"ok", "get_fails", "write_fails"},
     response : { Response("json", Dict(<< Entry("prediction", Str(ProviderText)) >>)),
                  Response("non_200", Null) }]
    \cup
    [endpoint : {"transcribe"},
     download : {"none"},
     response : { Response("json", Dict(<< Entry("prediction", Str(ProviderText)) >>)),
                  Response("non_200", Null) }]

\* the local variables of a handler when its request arrives
Arrived(script) ==
    [pc |-> IF script.endpoint = "transcribe_url" THEN "download_get" ELSE "transcribe",
     script |-> script,
     temp_file |-> 0,
     temp_file_path |-> 0,
     file_content |-> 0,
     sent |-> 0,
     transcript |-> NoText,
     outcome |-> NoOutcome]

ConcurrentInit ==
    /\ RequestInit
    /\ GladiaIdle
    /\ ParserIdle
    /\ requests \in [Requests -> {Arrived(sc) : sc \in Scripts}]
    /\ disk = {}

\* a name already in use is given again
FreshNames_any(files) == TempNames
\* NamedTemporaryFile creates its file under a name no file on disk has
FreshNames(files) == TempNames \ {f.name : f \in files}

\* the file `name` holds `content` (created or rewritten by `owner`)
WriteFile(files, name, owner, content) ==
    {f \in files : f.name # name}
    \cup {[name |-> name, owner |-> owner, content |-> content]}

\* os.unlink(file_path) when os.path.exists(file_path)
Unlink(files, name) == {f \in files : f.name # name}

\* the request ends with outcome o: /transcribe-url goes through its finally
Finish(p, o) ==
    [requests EXCEPT
        ![p].outcome = o,
        ![p].pc = IF requests[p].script.endpoint = "transcribe_url"
                  THEN "finally" ELSE "done"]

\* response = requests.get(file_url, stream=True, timeout=300)
get_file(p) ==
    /\ requests[p].pc = "download_get"
    /\ requests' = [requests EXCEPT ![p].pc =
            IF requests[p].script.download = "get_fails"
            THEN "after_download" ELSE "download_create"]
    /\ UNCHANGED << disk, request_vars, gladia_vars, parser_vars >>

\* temp_file = tempfile.NamedTemporaryFile(delete=False, suffix=...)
create_temp(p) ==
    /\ requests[p].pc = "download_create"
    /\ \E name \in FreshNames(disk) :
         /\ disk' = WriteFile(disk, name, p, 0)
         /\ requests' = [requests EXCEPT ![p].temp_file = name,
                                         ![p].pc = "download_write"]
    /\ UNCHANGED << request_vars, gladia_vars, parser_vars >>

\* the chunks are written; return temp_file.name, or None from the except
\* clauses when the stream breaks.  The bytes of request p are p.
write_temp(p) ==
    /\ requests[p].pc = "download_write"
    /\ IF requests[p].script.download = "ok"
       THEN /\ disk' = WriteFile(disk, requests[p].temp_file, p, p)
            /\ requests' = [requests EXCEPT
                   ![p].temp_file_path = requests[p].temp_file,
                   ![p].pc = "after_download"]
       ELSE /\ UNCHANGED disk
            /\ requests' = [requests EXCEPT ![p].pc = "after_download"]
    /\ UNCHANGED << request_vars, gladia_vars, parser_vars >>

\* if not temp_file_path: raise HTTPException(500)
check_download(p) ==
    /\ requests[p].pc = "after_download"
    /\ requests' =
         IF requests[p].temp_file_path = 0
         THEN Finish(p, HTTPException(500, None, "failed_to_download", NoErr))
         ELSE [requests EXCEPT ![p].pc = "read_temp"]
    /\ UNCHANGED << disk, request_vars, gladia_vars, parser_vars >>

\* with open(temp_file_path, 'rb') as f: file_content = f.read()
\* FileNotFoundError is caught by except Exception
open_temp(p) ==
    /\ requests[p].pc = "read_temp"
    /\ requests' =
         IF \E f \in disk : f.name = requests[p].temp_file_path
         THEN [requests EXCEPT
                  ![p].file_content =
                      (CHOOSE f \in disk : f.name = requests[p].temp_file_path).content,
                  ![p].pc = "transcribe"]
         ELSE Finish(p, InternalError("os_error"))
    /\ UNCHANGED << disk, request_vars, gladia_vars, parser_vars >>

\* transcript, transcribe_error = transcribe_audio_from_upload(...)
\* if not transcript: raise HTTPException(500); else return JSONResponse(200)
\* /transcribe sends the bytes of its upload, /transcribe-url those it read.
call_provider(p) ==
    /\ requests[p].pc = "transcribe"
    /\ LET r == transcribe_audio_from_upload(requests[p].script.response)
           content == IF requests[p].script.endpoint = "transcribe_url"
                      THEN requests[p].file_content ELSE p
           called == [requests EXCEPT ![p].sent = content,
                                      ![p].transcript = r.transcript]
       IN  requests' =
             [called EXCEPT
                ![p].outcome =
                    IF ~Truthy(r.transcript)
                    THEN HTTPException(500, "gladia", "failed_to_transcribe",
                                       Diag(r.error.message))
                    ELSE JSONResponse("success"),
                ![p].pc = IF requests[p].script.endpoint = "transcribe_url"
                          THEN "finally" ELSE "done"]
    /\ UNCHANGED << disk, request_vars, gladia_vars, parser_vars >>

\* finally: if temp_file_path: cleanup_temp_file(temp_file_path)
cleanup(p) ==
    /\ requests[p].pc = "finally"
    /\ disk' = IF requests[p].temp_file_path # 0
               THEN Unlink(disk, requests[p].temp_file_path)
               ELSE disk
    /\ requests' = [requests EXCEPT ![p].pc = "done"]
    /\ UNCHANGED << request_vars, gladia_vars, parser_vars >>

ConcurrentNext ==
    \E p \in Requests :
        \/ get_file(p)
        \/ create_temp(p)
        \/ write_temp(p)
        \/ check_download(p)
        \/ open_temp(p)
        \/ call_provider(p)
        \/ cleanup(p)

ConcurrentSpec == ConcurrentInit /\ [][ConcurrentNext]_vars


(***************************************************************************)
(* Properties.                                                             *)
(***************************************************************************)
Done == pc = "done"

UploadEndpoints == {"upload", "transcribe"}

\* the outcomes the handlers raise for invalid input
ValidationFailure ==
    /\ outcome.kind = "http"
    /\ outcome.message \in
         {"no_file_uploaded", "file_too_large", "empty_file", "unsupported_file_type",
          "invalid_json_request", "no_transcript_provided", "transcript_too_short"}

\* the summarization provider answered some attempt with a text
SummarizationSucceeded ==
    attempt_log # << >> /\ attempt_log[Len(attempt_log)] = "text"

\* C1: in /upload, /transcribe and /summarize a request that ends with a
\* validation failure (status 400 or 413 for a missing, empty, oversized or
\* wrongly typed file, or a missing, empty or too short transcript) has made
\* no call to the transcription provider and none to the summarization
\* provider.
C1_NoProviderCallOnValidationFailure ==
    (/\ endpoint \in {"upload", "transcribe", "summarize"}
     /\ Done
     /\ ValidationFailure)
    => /\ outcome.status \in {400, 413}
       /\ gladia_calls = << >>
       /\ attempted = << >>
       /\ ~summary_data.returned

C1_Witness ==
    /\ endpoint = "upload" /\ Done
    /\ outcome.message = "unsupported_file_type"
    /\ file_size = 2097152

\* C2: for an /upload request that passed validation: no transcript from the
\* transcription step gives 500 tagged "gladia" and no summarization call; a
\* transcript followed by a failed summarization gives 502 tagged "gemini";
\* 200 is given only when both steps succeeded.
C2_UploadOutcomes ==
    (endpoint = "upload" /\ validated /\ Done)
    => /\ ~Truthy(transcript)
            => /\ outcome.status = 500 /\ outcome.provider = "gladia"
               /\ attempted = << >> /\ ~summary_data.returned
       /\ (Truthy(transcript) /\ ~SummarizationSucceeded)
            => outcome.status = 502 /\ outcome.provider = "gemini"
       /\ outcome.status = 200
            => Truthy(transcript) /\ SummarizationSucceeded

C2_Witness ==
    /\ endpoint = "upload" /\ Done
    /\ outcome.status = 502 /\ outcome.provider = "gemini"
    /\ Len(attempted) = Len(candidate_models)

\* C3: when a /transcribe-url request has finished, no temporary file created
\* for its download exists any more, whatever the exit path.
C3_TempFileRemoved ==
    (endpoint = "transcribe_url" /\ Done) => temp_files = {}

\* the identifiers of the first n candidates
Prefix(n) == SubSeq(candidate_models, 1, n)

\* generate_meeting_summary has returned after entering its loop
LoopReturned ==
    summary_data.returned /\ summary_data.details.error # "client_init_error"

SizeChecked ==
    /\ endpoint \in UploadEndpoints
    /\ file_present
    /\ fault # "read_file"
    /\ pc \notin {"idle", "check_file", "read_file", "check_size"}

\* the file names of FileNames whose final extension, lower-cased, is in the
\* allow-list
AllowedNames ==
    { << "a", ".", "m", "p", "3" >>, << "a", ".", "w", "a", "v" >>,
      << "a", ".", "m", "p", "4" >>, << "a", ".", "a", "v", "i" >>,
      << "a", ".", "m", "o", "v" >>, << "a", ".", "m", "4", "a" >>,
      << "a", ".", "f", "l", "a", "c" >>, << "a", ".", "o", "g", "g" >>,
      << "a", ".", "M", "P", "3" >>, << "a", ".", "W", "a", "v" >>,
      << "A", ".", "F", "L", "A", "C" >>, << "a", ".", "O", "g", "G" >>,
      << "a", ".", "p", "d", "f", ".", "w", "a", "v" >> }

\* C6: in /upload and /transcribe a file of 104857600 bytes passes the size
\* check (and, with an allowed extension, validation), one of 104857601 bytes
\* is rejected with 413, one of 0 bytes with 400, and every size in
\* 1..104857600 passes the size check.
C6_SizeBoundary ==
    SizeChecked
    => /\ file_size = 0
            => Done /\ outcome.status = 400 /\ outcome.message = "empty_file"
       /\ file_size = 104857601
            => Done /\ outcome.status = 413 /\ outcome.message = "file_too_large"
       /\ (1 <= file_size /\ file_size <= 104857600)
            => /\ outcome.message \notin {"empty_file", "file_too_large"}
               /\ outcome.status # 413
               /\ (filename \in AllowedNames /\ pc # "check_ext") => validated

C6_Witness ==
    /\ endpoint = "transcribe" /\ Done
    /\ file_size = 104857600
    /\ validated /\ outcome.status = 200

\* the length of raw without its leading and trailing spaces
TrimmedLen(raw) ==
    LET ns == {i \in 1..Len(raw) : raw[i] # " "}
    IN  IF ns = {} THEN 0
        ELSE (CHOOSE i \in ns : \A j \in ns : j <= i)
             - (CHOOSE i \in ns : \A j \in ns : i <= j) + 1

\* the validation of /summarize has been applied
TranscriptChecked ==
    /\ endpoint = "summarize"
    /\ pc \notin {"idle", "parse_body", "check_transcript"}

\* C7 as stated: every transcript of exactly 10 characters passes the
\* validation of /summarize, also with leading or trailing whitespace, and
\* every transcript of 9 or fewer characters (or a missing one) is rejected
\* with 400.
C7_TenCharactersPass ==
    TranscriptChecked
    => /\ (body_kind = "text" /\ Len(raw_transcript) = 10) => validated
       /\ (body_kind = "text" /\ Len(raw_transcript) <= 9)
            => ~validated /\ outcome.status = 400
       /\ body_kind # "text" => ~validated /\ outcome.status = 400

\* C7 amended: the length that counts is that of the transcript without its
\* leading and trailing whitespace: 10 or more passes and reaches the
\* summarization step, 9 or fewer (also missing, empty or all whitespace) is
\* rejected with 400 and no summarization call.
C7_TrimmedLengthDecides ==
    TranscriptChecked
    => /\ (body_kind = "text" /\ TrimmedLen(raw_transcript) >= 10)
            => /\ validated
               /\ Len(transcript) = TrimmedLen(raw_transcript)
               /\ Done => summary_data.returned
       /\ (body_kind = "text" /\ TrimmedLen(raw_transcript) <= 9)
            => /\ ~validated /\ Done /\ outcome.status = 400
               /\ ~summary_data.returned /\ attempted = << >>
       /\ body_kind # "text"
            => ~validated /\ Done /\ outcome.status = 400

C7_Witness ==
    /\ endpoint = "summarize" /\ Done
    /\ Len(raw_transcript) = 12 /\ TrimmedLen(raw_transcript) = 10
    /\ raw_transcript[1] = " "
    /\ validated /\ outcome.status = 200

\* the extension check of /upload or /transcribe has been applied to a file
\* of valid size
ExtensionChecked ==
    /\ SizeChecked
    /\ 1 <= file_size /\ file_size <= 104857600
    /\ filename # NoText
    /\ pc # "check_ext"

\* C8: in /upload and /transcribe a file of valid size passes validation if
\* and only if the final extension of its name, compared without regard to
\* case, is in the allow-list; every other name is rejected with 400.
C8_ExtensionAllowList ==
    ExtensionChecked
    => /\ validated <=> filename \in AllowedNames
       /\ filename \notin AllowedNames
            => /\ Done /\ outcome.status = 400
               /\ outcome.message = "unsupported_file_type"
               /\ gladia_calls = << >>

C8_Witness ==
    /\ endpoint = "transcribe" /\ Done
    /\ filename = << "a", ".", "M", "P", "3" >>
    /\ validated /\ outcome.status = 200

\* C9: an unexpected exception raised at any point of a handler, the
\* validation steps included, is reported as a 500 internal error carrying
\* its message and never leaves the handler.
C9_ExceptionsBecomeInternalError ==
    (Done /\ fault # None)
    => /\ outcome.kind = "http"
       /\ outcome.status = 500
       /\ outcome.message = "internal_server_error"

\* /transcribe-url has downloaded the file, read it and called the provider
UrlTranscribed ==
    /\ endpoint = "transcribe_url"
    /\ temp_file_path # None
    /\ fault # "read_temp"
    /\ pc \in {"present", "finally", "done"}

\* C10 as stated: /transcribe-url calls the transcription provider only with
\* bytes of a size in (0, 100 MiB] and a file name whose extension is in the
\* allow-list, so the generic MIME type is never sent.
C10_UrlValidatesLikeTranscribe ==
    endpoint = "transcribe_url"
    => \A i \in 1..Len(gladia_calls) :
         /\ gladia_calls[i].filename \in AllowedNames
         /\ gladia_calls[i].mime # GenericMime
         /\ 0 < gladia_calls[i].size /\ gladia_calls[i].size <= 104857600

\* C10 amended: after a successful download /transcribe-url validates
\* nothing: it calls the transcription provider once with the downloaded
\* bytes, whatever their size, under the caller's file name, whatever its
\* extension, and the MIME type sent is the generic one exactly when that
\* extension is outside the allow-list.
C10_UrlCallsWithoutValidation ==
    /\ UrlTranscribed
         => /\ Len(gladia_calls) = 1
            /\ gladia_calls[1].filename = filename
            /\ gladia_calls[1].size = written
            /\ gladia_calls[1].mime = GenericMime <=> filename \notin AllowedNames
            /\ ~validated
    /\ (endpoint = "transcribe_url" /\ Done) => outcome.status \in {200, 500}

C10_Witness ==
    /\ endpoint = "transcribe_url" /\ Done
    /\ Len(gladia_calls) = 1
    /\ gladia_calls[1].filename = << "a", ".", "p", "d", "f" >>
    /\ gladia_calls[1].mime = GenericMime
    /\ gladia_calls[1].size = 104857601
    /\ outcome.status = 200


\* the request ended with a failure status answered by the handler
FailureOutcome == Done /\ outcome.kind = "http" /\ outcome.status # 200

\* the failure came from the storage download of /transcribe-url
DownloadFailed ==
    endpoint = "transcribe_url" /\ Done /\ temp_file_path = None

\* the failure came from the transcription provider's answer
TranscriptionFailed ==
    Done /\ gladia_calls # << >> /\ ~Truthy(transcript) /\ fault = None

\* the failure came from the summarization provider
SummarizationFailed ==
    Done /\ summary_data.returned /\ summary_data.is_error /\ fault = None

\* C11: every failure outcome carries a message, and carries a provider tag
\* whenever the failure came from an external call (the storage download of
\* /transcribe-url, the transcription provider, the summarization provider);
\* validation failures carry none.
C11_ExternalFailuresTagged ==
    FailureOutcome
    => /\ outcome.message # None
       /\ (DownloadFailed \/ TranscriptionFailed \/ SummarizationFailed)
            => outcome.provider # None
       /\ ValidationFailure => outcome.provider = None


\* the JSON answer is an object
JsonObject == response.kind = "json" /\ response.payload.type = "dict"

\* the top-level keys of the payload, as the entries list them
PayloadKeys == [i \in 1..Len(response.payload.fields) |-> response.payload.fields[i].key]

\* the Python type of the payload's field k, NoneType when it has none
FieldType(k) ==
    IF \E i \in 1..Len(response.payload.fields) : response.payload.fields[i].key = k
    THEN LET i == CHOOSE j \in 1..Len(response.payload.fields) :
                      response.payload.fields[j].key = k
         IN  response.payload.fields[i].value.type
    ELSE "NoneType"

\* C12: every return of transcribe_audio_from_upload (a 200 with a transcript
\* that can be recovered, a 200 with none or an empty one, a 200 that is not
\* JSON, another status, an exception) has either a non-empty transcript and
\* no error, or no transcript and an error: never both and never neither.
C12_ExactlyOneOfTranscriptAndError ==
    gpc = "returned"
    => \/ /\ returned.transcript # NoText
          /\ returned.transcript # << >>
          /\ returned.error = NoDiagnostic
       \/ /\ returned.transcript = NoText
          /\ returned.error # NoDiagnostic
          /\ returned.error.message # None

C12_Witness ==
    /\ gpc = "returned"
    /\ JsonObject
    /\ extracted = << >>
    /\ returned.transcript = NoText
    /\ returned.error.message = "no_transcript_field"

\* C18: when the provider answers 200 with a JSON object from which no rule
\* of the normalizer recovers a text, transcribe_audio_from_upload returns no
\* transcript and a diagnostic that lists exactly the top-level keys of the
\* payload, with the runtime types of its prediction and prediction_raw.
C18_DiagnosticListsKeys ==
    (gpc = "returned" /\ JsonObject /\ extracted = NoText)
    => /\ returned.transcript = NoText
       /\ returned.error.message = "no_transcript_field"
       /\ returned.error.keys = PayloadKeys
       /\ returned.error.prediction_type = FieldType("prediction")
       /\ returned.error.prediction_raw_type = FieldType("prediction_raw")

C18_Witness ==
    /\ gpc = "returned"
    /\ JsonObject
    /\ extracted = NoText
    /\ returned.error.keys = << "request_id", "prediction", "prediction_raw", "result" >>
    /\ returned.error.prediction_type = "list"
    /\ returned.error.prediction_raw_type = "dict"

\* the payload has a prediction that is a str
StringPrediction ==
    /\ JsonObject
    /\ FieldType("prediction") = "str"

\* C20: when the payload's prediction is a string, _extract_transcript
\* returns that string as it is, whatever text, transcription, full_text,
\* result and data the payload also holds.
C20_StringPredictionVerbatim ==
    (gpc \in {"extracted", "returned"} /\ StringPrediction)
    => \E i \in 1..Len(response.payload.fields) :
         /\ response.payload.fields[i].key = "prediction"
         /\ extracted = response.payload.fields[i].value.text

C20_Witness ==
    /\ gpc = "extracted"
    /\ StringPrediction
    /\ extracted = << >>
    /\ FieldType("text") = "str"
    /\ FieldType("transcription") = "str"
    /\ FieldType("result") = "dict"
    /\ FieldType("data") = "dict"


\* parse_gemini_response has run on the text
Parsed == ppc \in {"parsed", "formatted"}

\* what a line under a heading adds to the section as the parser collects
\* it: the line without `*` and outer whitespace; nothing for a blank line
\* and for a line that begins with `**`
KeptText(id) ==
    CASE id = "bullet"   -> << << "-", " ", "a" >> >>
      [] id = "emphasis" -> << << "b", " ", "c" >> >>
      [] id = "indented" -> << << "f" >> >>
      [] OTHER           -> << >>

\* the line with its emphasis characters and outer whitespace removed;
\* nothing for a blank line
CleanText(id) ==
    CASE id = "bold" -> << << "d", " ", "e" >> >>
      [] OTHER       -> KeptText(id)

RECURSIVE KeptLines(_)
KeptLines(body) ==
    IF body = << >> THEN << >> ELSE KeptText(Head(body)) \o KeptLines(Tail(body))

RECURSIVE CleanLines(_)
CleanLines(body) ==
    IF body = << >> THEN << >> ELSE CleanText(Head(body)) \o CleanLines(Tail(body))

\* the text after the colon of a heading line
HeaderTrailing(tag, form) ==
    CASE tag = "summary" /\ form = "plain" -> << << "k" >> >>
      [] tag = "agenda" /\ form = "trailing" -> << << "*", "*", " ", "g" >> >>
      [] tag = "summary" /\ form = "trailing" -> << << "*", "*", " ", "h" >> >>
      [] tag = "action_items" /\ form = "trailing" ->
            << << "*", "*", " ", "*", "i", "*" >> >>
      [] tag = "agenda" /\ form = "mixed" -> << << "a", "g", "e", "n", "d", "a" >> >>
      [] tag = "summary" /\ form = "mixed" ->
            << << "s", "u", "m", "m", "a", "r", "y" >> >>
      [] OTHER -> << >>

\* the content lines of the i-th section of the text
SectionContent(i) ==
    HeaderTrailing(layout.sections[i].tag, layout.style.form)
    \o KeptLines(layout.sections[i].body)

\* some section of the text has content
AnyContent == \E i \in 1..Len(layout.sections) : SectionContent(i) # << >>

\* the sections under the heading of tag
Occurrences(tag) == {i \in 1..Len(layout.sections) : layout.sections[i].tag = tag}

\* the content of the last section under the heading of tag that has any
LastContent(tag) ==
    LET withContent == {i \in Occurrences(tag) : SectionContent(i) # << >>}
    IN  IF withContent = {} THEN << >>
        ELSE JoinLines(SectionContent(
                 CHOOSE i \in withContent : \A j \in withContent : j <= i))

\* the three headings the prompt asks for, in its order, each with a body
CanonicalText ==
    /\ layout.style.form = "canonical"
    /\ Len(layout.sections) = 3
    /\ layout.sections[1].tag = "agenda"
    /\ layout.sections[2].tag = "summary"
    /\ layout.sections[3].tag = "action_items"
    /\ \A i \in 1..3 : layout.sections[i].body # << >>

\* C13: for a text with exactly the three canonical headings in order, each
\* followed by a non-empty body, parse_gemini_response returns agenda,
\* summary and action_items each equal to its body with the emphasis
\* characters removed: no body line is lost or given to another field.
C13_CanonicalBodiesRecovered ==
    (Parsed /\ CanonicalText)
    => /\ parsed.agenda = JoinLines(CleanLines(layout.sections[1].body))
       /\ parsed.summary = JoinLines(CleanLines(layout.sections[2].body))
       /\ parsed.action_items = JoinLines(CleanLines(layout.sections[3].body))

\* the three headings, each once, in any order
Permuted ==
    /\ Len(layout.sections) = 3
    /\ \A tag \in Tags : \E i \in 1..3 : layout.sections[i].tag = tag

\* the same sections in the order agenda, summary, action_items
CanonicalOrder ==
    [layout EXCEPT !.sections =
        [i \in 1..3 |->
            LET tag == << "agenda", "summary", "action_items" >>[i]
            IN  layout.sections[CHOOSE j \in 1..3 : layout.sections[j].tag = tag]]]

Repeated(tag) == Cardinality(Occurrences(tag)) > 1

\* the last section under the heading of tag
LastOccurrence(tag) ==
    CHOOSE i \in Occurrences(tag) : \A j \in Occurrences(tag) : j <= i

\* C15 as stated: when a heading occurs more than once, the field holds the
\* body of its last occurrence only, whatever that body is.
C15_LastOccurrenceOnly ==
    (Parsed /\ AnyContent)
    => \A tag \in Tags :
         Repeated(tag)
         => parsed[tag] = JoinLines(SectionContent(LastOccurrence(tag)))

\* C15 amended: when a heading occurs more than once, the field holds the
\* content of the last occurrence under which the parser collected any:
\* the content of earlier occurrences is overwritten and never appended to,
\* and an occurrence with no content leaves the value stored before it.
C15_LastOccurrenceWithContent ==
    (Parsed /\ AnyContent)
    => \A tag \in Tags : Repeated(tag) => parsed[tag] = LastContent(tag)

C15_Witness ==
    /\ Parsed
    /\ Len(layout.sections) = 3
    /\ layout.sections[1] = [tag |-> "agenda", body |-> << "bullet" >>]
    /\ layout.sections[2].tag = "summary"
    /\ layout.sections[3] = [tag |-> "agenda", body |-> << "emphasis", "bold" >>]
    /\ parsed.agenda = << "b", " ", "c" >>

\* C16: parse_gemini_response always returns the three fields, each a text;
\* when the text has none of the headings, or no section collected any
\* content, summary is the whole text without its outer whitespace and
\* agenda and action_items are the two "could not parse" placeholders.
C16_FallbackOnNothingParsed ==
    Parsed
    => /\ DOMAIN parsed = {"agenda", "summary", "action_items"}
       /\ \A k \in DOMAIN parsed : parsed[k] # NoText
       /\ ~AnyContent
            => /\ parsed.summary = Strip(generated_text)
               /\ parsed.agenda = CouldNotParseAgenda
               /\ parsed.action_items = CouldNotParseActionItems

C16_Witness ==
    /\ Parsed
    /\ layout.sections = << >>
    /\ layout.style.preamble = << "blank", "indented" >>
    /\ generated_text = << "\n", " ", " ", "f", " " >>
    /\ parsed.summary = << "f" >>
    /\ parsed.agenda = CouldNotParseAgenda

\* C17: format_summary_for_frontend puts the "not available" placeholder in
\* place of every field of its input that is an empty string: the output
\* field, and its part of the composite summary, never hold the empty
\* string.
C17_PlaceholderForEmptyField ==
    ppc = "formatted"
    => /\ parsed.agenda = << >> => formatted.agenda = AgendaDefault
       /\ parsed.summary = << >> => formatted.key_points = SummaryDefault
       /\ parsed.action_items = << >> => formatted.action_items = ActionItemsDefault
       /\ formatted.summary =
            AgendaHeading
            \o (IF parsed.agenda = << >> THEN AgendaDefault ELSE parsed.agenda)
            \o SummaryHeading
            \o (IF parsed.summary = << >> THEN SummaryDefault ELSE parsed.summary)
            \o ActionItemsHeading
            \o (IF parsed.action_items = << >> THEN ActionItemsDefault
                ELSE parsed.action_items)


\* what a request with this script is answered when it is handled alone
AloneOutcome(script) ==
    IF script.download \in {"get_fails", "write_fails"}
    THEN [status |-> 500, provider |-> None, message |-> "failed_to_download",
          transcript |-> NoText]
    ELSE IF script.response.kind = "json"
    THEN [status |-> 200, provider |-> None, message |-> "success",
          transcript |-> ProviderText]
    ELSE [status |-> 500, provider |-> "gladia", message |-> "failed_to_transcribe",
          transcript |-> NoText]

\* request p holds a temporary file it may still read or has to delete
HoldsFile(p) ==
    /\ requests[p].temp_file_path # 0
    /\ requests[p].pc \in {"after_download", "read_temp", "transcribe", "finally"}

\* C19: under every interleaving of the requests handled at the same time
\* (two /transcribe-url requests among them) each request ends with the
\* outcome it has when handled alone with the same input and the same
\* answers of the storage and the provider; it sends the provider its own
\* bytes, and the temporary file it holds is the one it created, with its
\* own bytes: no other request has rewritten or deleted it.
C19_RequestsIndependent ==
    \A p \in DOMAIN requests :
        /\ requests[p].pc = "done"
             => LET alone == AloneOutcome(requests[p].script)
                IN  /\ requests[p].outcome.kind = "http"
                    /\ requests[p].outcome.status = alone.status
                    /\ requests[p].outcome.provider = alone.provider
                    /\ requests[p].outcome.message = alone.message
                    /\ requests[p].transcript = alone.transcript
        /\ requests[p].pc \in {"finally", "done"}
             => requests[p].sent \in {0, p}
        /\ HoldsFile(p)
             => \E f \in disk :
                  /\ f.name = requests[p].temp_file_path
                  /\ f.owner = p
                  /\ f.content = p
        /\ \A f \in disk : f.content \in {0, f.owner}

C19_Witness ==
    /\ requests[1].script.endpoint = "transcribe_url"
    /\ requests[2].script.endpoint = "transcribe_url"
    /\ requests[1].pc = "done" /\ requests[2].pc = "finally"
    /\ requests[1].outcome.status = 200 /\ requests[1].sent = 1
    /\ requests[2].outcome.status = 200 /\ requests[2].sent = 2
    /\ requests[2].temp_file_path = 1
    /\ \E f \in disk : f.name = 1 /\ f.owner = 2

(***************************************************************************)
(* The rules of _extract_transcript, one by one, stated on the payload.     *)
(***************************************************************************)
\* the payload's field k, Null when it has none
FieldValue(k) ==
    IF \E i \in 1..Len(response.payload.fields) : response.payload.fields[i].key = k
    THEN LET i == CHOOSE j \in 1..Len(response.payload.fields) :
                      response.payload.fields[j].key = k
         IN  response.payload.fields[i].value
    ELSE Null

\* the strings the mapping d holds under key k (none or one)
StrsUnder(d, k) ==
    { d.fields[i].value.text :
        i \in { j \in 1..Len(d.fields) :
                  d.fields[j].key = k /\ d.fields[j].value.type = "str" } }

\* the string under the first key of `order` under which d holds a string,
\* NoText when d holds a string under none of them
Preferred(d, order) ==
    LET hits == { i \in 1..Len(order) : StrsUnder(d, order[i]) # {} }
    IN  IF hits = {} THEN NoText
        ELSE LET first == CHOOSE i \in hits : \A j \in hits : i <= j
             IN  CHOOSE t \in StrsUnder(d, order[first]) : TRUE

\* the preference order among the keys of an element of a prediction list
ElementPreference == << "transcription", "transcript", "text", "sentence", "segment" >>

\* the string an element of the list contributes (none or one)
ElementString(item) ==
    IF item.type = "str" THEN << item.text >>
    ELSE IF item.type = "dict" /\ Preferred(item, ElementPreference) # NoText
    THEN << Preferred(item, ElementPreference) >>
    ELSE << >>

\* the strings of the first n elements, in the order of the list
RECURSIVE ElementStrings(_, _)
ElementStrings(items, n) ==
    IF n = 0 THEN << >>
    ELSE ElementStrings(items, n - 1) \o ElementString(items[n])

\* the first n strings with a newline between each two
RECURSIVE JoinedUpTo(_, _)
JoinedUpTo(texts, n) ==
    IF n = 0 THEN << >>
    ELSE IF n = 1 THEN texts[1]
    ELSE JoinedUpTo(texts, n - 1) \o << "\n" >> \o texts[n]

ListPrediction ==
    /\ JsonObject
    /\ FieldType("prediction") = "list"

\* the payload with its prediction left out
WithoutPrediction ==
    Dict(SelectSeq(response.payload.fields, LAMBDA e : e.key # "prediction"))

\* C21: when the payload's prediction is a list, _extract_transcript returns
\* the strings of its elements joined by newlines in the order of the list:
\* an element that is a string gives itself, a mapping its first string among
\* transcription, transcript, text, sentence, segment, any other element
\* nothing; a list that gives no string at all is passed over, and the
\* result is the one the later rules give (that of the payload without its
\* prediction), not an empty text.
C21_ListPredictionJoined ==
    (gpc \in {"extracted", "returned"} /\ ListPrediction)
    => LET items == FieldValue("prediction").items
           strings == ElementStrings(items, Len(items))
       IN  IF strings # << >>
           THEN extracted = JoinedUpTo(strings, Len(strings))
           ELSE extracted = _extract_transcript(WithoutPrediction)

C21_Witness ==
    /\ gpc = "extracted"
    /\ ListPrediction
    /\ Len(FieldValue("prediction").items) = 4
    /\ FieldType("text") = "str"
    /\ extracted = << "t", "\n", "c", "\n", "g" >>

MappingPrediction ==
    /\ JsonObject
    /\ FieldType("prediction") = "dict"

\* C22: when the payload's prediction is a mapping, _extract_transcript
\* returns its first string among transcription, transcript, text, sentence,
\* segment; a mapping whose only string is under `transcription` gives that
\* string.
C22_MappingPredictionPreference ==
    ( /\ gpc \in {"extracted", "returned"}
      /\ MappingPrediction
      /\ Preferred(FieldValue("prediction"), ElementPreference) # NoText )
    => extracted = Preferred(FieldValue("prediction"), ElementPreference)

\* the keys the code looks up on a prediction that is a mapping
MappingKeys == << "transcript", "text", "sentence", "segment" >>

\* what the prediction rules return, NoText when they return nothing
PredictionResult ==
    LET pred == FieldValue("prediction")
    IN  CASE FieldType("prediction") = "str" -> pred.text
          [] FieldType("prediction") = "list" ->
                LET strings == ElementStrings(pred.items, Len(pred.items))
                IN  IF strings = << >> THEN NoText
                    ELSE JoinedUpTo(strings, Len(strings))
          [] FieldType("prediction") = "dict" -> Preferred(pred, MappingKeys)
          [] OTHER -> NoText

\* the order in which the top-level fields are looked up
RootPreference == << "text", "transcription", "full_text" >>

\* C23: when the prediction rules return nothing, _extract_transcript
\* returns the first string among the payload's text, transcription and
\* full_text, in that order, whatever its result and data hold; when the
\* prediction rules return a text, that text is the result and the
\* top-level fields are not looked at.
C23_RootFieldsAfterPrediction ==
    (gpc \in {"extracted", "returned"} /\ JsonObject)
    => /\ PredictionResult # NoText => extracted = PredictionResult
       /\ ( /\ PredictionResult = NoText
            /\ Preferred(response.payload, RootPreference) # NoText )
          => extracted = Preferred(response.payload, RootPreference)

C23_Witness ==
    /\ gpc = "extracted"
    /\ JsonObject
    /\ FieldType("prediction") = "list"
    /\ PredictionResult = NoText
    /\ FieldType("text") = "int"
    /\ FieldType("transcription") = "str"
    /\ FieldType("full_text") = "str"
    /\ FieldType("result") = "dict"
    /\ FieldType("data") = "dict"
    /\ extracted = << "R" >>

\* what a sub-object gives: its first string among text, transcription,
\* full_text when it is a mapping
SubObjectText(v) ==
    IF v.type = "dict" THEN Preferred(v, RootPreference) ELSE NoText

\* C24: when neither the prediction rules nor the top-level fields give a
\* text, _extract_transcript returns the first string among text,
\* transcription, full_text of the payload's `result`, else of its `data`;
\* a sub-object with a string under another key only gives nothing.
C24_NestedThreeKeysOnly ==
    ( /\ gpc \in {"extracted", "returned"}
      /\ JsonObject
      /\ PredictionResult = NoText
      /\ Preferred(response.payload, RootPreference) = NoText )
    => extracted =
         IF SubObjectText(FieldValue("result")) # NoText
         THEN SubObjectText(FieldValue("result"))
         ELSE SubObjectText(FieldValue("data"))

(***************************************************************************)
(* The line rules of parse_gemini_response.                                *)
(***************************************************************************)
\* the headings of the text are lines with the words of several headings
MixedHeadings == layout.style.form = "mixed"

\* C25: a heading line is given to the first of agenda, summary,
\* action_items whose pattern it matches, wherever it stands in the text: a
\* line with the words of all three headings opens the agenda section, a
\* line with those of summary and action items the summary section, so the
\* content after and under it is stored in that field.
C25_HeaderPriority ==
    (Parsed /\ MixedHeadings /\ AnyContent)
    => \A tag \in Tags : parsed[tag] = LastContent(tag)

C25_Witness ==
    /\ Parsed
    /\ MixedHeadings
    /\ layout.sections =
         << [tag |-> "action_items", body |-> << "emphasis", "bold" >>],
            [tag |-> "summary", body |-> << >>],
            [tag |-> "agenda", body |-> << "bullet" >>] >>
    /\ parsed.agenda = << "a", "g", "e", "n", "d", "a", "\n", "-", " ", "a" >>
    /\ parsed.summary = << "s", "u", "m", "m", "a", "r", "y" >>
    /\ parsed.action_items = << "b", " ", "c" >>

\* the content lines of the i-th section when every line under a heading
\* that is not blank is kept with its `*` removed
CleanContent(i) ==
    HeaderTrailing(layout.sections[i].tag, layout.style.form)
    \o CleanLines(layout.sections[i].body)

\* the clean content of the last section under the heading of tag that has
\* any
LastCleanContent(tag) ==
    LET withContent == {i \in Occurrences(tag) : CleanContent(i) # << >>}
    IN  IF withContent = {} THEN << >>
        ELSE JoinLines(CleanContent(
                 CHOOSE i \in withContent : \A j \in withContent : j <= i))

\* C26: every line under a heading that is no heading and is not blank is
\* added to the section with its `*` removed, a line that begins with `**`
\* too; the lines before the first heading and the blank lines are in no
\* field.
C26_EveryContentLineKept ==
    (Parsed /\ \E i \in 1..Len(layout.sections) : CleanContent(i) # << >>)
    => \A tag \in Tags : parsed[tag] = LastCleanContent(tag)

\* the text after the colon of a heading line, without emphasis characters
CleanTrailing(tag, form) ==
    CASE tag = "summary" /\ form = "plain" -> << << "k" >> >>
      [] tag = "agenda" /\ form = "trailing" -> << << "g" >> >>
      [] tag = "summary" /\ form = "trailing" -> << << "h" >> >>
      [] tag = "action_items" /\ form = "trailing" -> << << "i" >> >>
      [] tag = "agenda" /\ form = "mixed" -> << << "a", "g", "e", "n", "d", "a" >> >>
      [] tag = "summary" /\ form = "mixed" ->
            << << "s", "u", "m", "m", "a", "r", "y" >> >>
      [] OTHER -> << >>

\* C27: when the last heading line of a field has text after its colon
\* other than `**`, the field holds that text, without emphasis characters,
\* as the first line of its body, followed by the lines collected under the
\* heading.
C27_TrailingTextWithoutMarkers ==
    Parsed
    => \A tag \in Tags :
         ( /\ Occurrences(tag) # {}
           /\ CleanTrailing(tag, layout.style.form) # << >> )
         => parsed[tag] =
              JoinLines(CleanTrailing(tag, layout.style.form)
                        \o KeptLines(layout.sections[LastOccurrence(tag)].body))

(***************************************************************************)
(* The order of the steps of /upload.                                      *)
(***************************************************************************)
\* the handler is in, or has been through, its summarization step
SummarizationEntered ==
    \/ pc \in {"client_init", "try_model", "after_summarize"}
    \/ attempted # << >>
    \/ summary_data # NoSummary

\* the transcription step has returned a transcript with characters in it
HasTranscript ==
    /\ Len(gladia_calls) = 1
    /\ transcript # NoText
    /\ Len(transcript) > 0

\* C28: a request to /upload goes through validate, transcribe, summarize,
\* present in that order: the transcription provider is called only for a
\* validated request, the summarization step is entered only with the
\* non-empty transcript the transcription step returned, never after a
\* transcription failure, and a 200 response is given only after a
\* summarization that succeeded and carries that non-empty transcript.
C28_UploadStepsInOrder ==
    endpoint = "upload"
    => /\ gladia_calls # << >> => validated
       /\ SummarizationEntered => HasTranscript
       /\ (Done /\ outcome.message = "failed_to_transcribe")
            => /\ attempted = << >>
               /\ summary_data = NoSummary
       /\ pc = "present" => (HasTranscript /\ SummarizationSucceeded)
       /\ (Done /\ outcome.kind = "http" /\ outcome.status = 200)
            => /\ HasTranscript
               /\ SummarizationSucceeded
               /\ summary_data = ParsedSummary

C28_Witness ==
    /\ endpoint = "upload"
    /\ Done
    /\ outcome.status = 200
    /\ validated
    /\ Len(gladia_calls) = 1
    /\ transcript = ProviderText
    /\ Len(attempted) = 2
    /\ attempt_log = << "exception", "text" >>


=============================================================================
